---- MODULE Spec2Model ----
(***************************************************************************)
(* Kinetic-modelling analysis (hazem18977/kenan): the preprocessor         *)
(* (data_processor.preprocess_data), the region selector                   *)
(* (kinetic_models.find_stable_points) and the part of app.main that       *)
(* builds the table handed to them.                                        *)
(*                                                                         *)
(* Numbers.  A float is a pair <<n, d>>: a finite value is the reduced     *)
(* fraction n/d with d > 0; d = 0 marks the IEEE specials NaN = <<0,0>>,   *)
(* +inf = <<1,0>>, -inf = <<-1,0>>.  Arithmetic on finite values is exact. *)
(***************************************************************************)
EXTENDS Integers, Sequences, FiniteSets, TLC

VARIABLES
    pc,               \* position of the running code
    input_method,     \* app.main: the st.radio choice of this run
    uploaded,         \* app.main: the table read from the uploaded file (None: no file)
    edited,           \* app.main: what st.data_editor returned (None: not reached)
    df,               \* app.main: df (None or a table); argument of preprocess_data
    msgs,             \* app.main: user-visible st.error/st.warning/st.info of this run
    processed_df,     \* preprocess_data: processed_df; app.main: processed_df
    selected_data,    \* app.main: selected_data (None before line 1016)
    y,                \* find_stable_points: argument y
    t,                \* find_stable_points: argument t
    threshold,        \* find_stable_points: argument threshold
    i,                \* find_stable_points: loop index (0-based, as in Python)
    stable_indices,   \* find_stable_points: stable_indices (0-based indices)
    initial_slope,    \* find_stable_points: initial_slope (None or a float)
    previous_slope,   \* find_stable_points: previous_slope
    pfo,              \* app.main: what fit_pfo_model returned (None before line 1045)
    pso,              \* app.main: what fit_pso_model returned (None before line 1046)
    results_summary,  \* app.main: results_summary (None before line 1055)
    metric_cards,     \* app.main: the rate constants on the metric cards (lines 1076, 1103)
    detailed_results, \* app.main: detailed_results (None before line 1122)
    session_state,    \* st.session_state: the two remembered first A values
    notified,         \* app.main: st.success "Автоопределение: А0 = ..." shown in this run
    clicked,          \* app.main: what st.button returned in this run
    earlier           \* the inputs and results of the run before this one (None: no such run)

scanvars == <<y, t, threshold, i, stable_indices, initial_slope, previous_slope>>
appvars == <<input_method, uploaded, edited, df, msgs, processed_df, selected_data>>
fitvars == <<pfo, pso, results_summary, metric_cards, detailed_results>>
runvars == <<session_state, notified, clicked, earlier>>
vars == <<pc, input_method, uploaded, edited, df, msgs, processed_df, selected_data,
          y, t, threshold, i, stable_indices, initial_slope, previous_slope,
          pfo, pso, results_summary, metric_cards, detailed_results,
          session_state, notified, clicked, earlier>>

(***************************************************************************)
(* Bounds of the model.                                                    *)
(***************************************************************************)
MaxLen == 3        \* longest series handed to find_stable_points on its own
MaxRows == 2       \* most rows of a raw table handed to preprocess_data on its own
MaxEntry == 3      \* most rows of an uploaded file or of a manually entered table
MaxRegion == 3     \* most rows of a table analysed on its own

(***************************************************************************)
(* Floats.                                                                 *)
(***************************************************************************)
None == <<>>
NaN == <<0, 0>>
PInf == <<1, 0>>
NInf == <<-1, 0>>

Abs(n) == IF n < 0 THEN -n ELSE n

Sgn(n) == IF n < 0 THEN -1 ELSE IF n > 0 THEN 1 ELSE 0

RECURSIVE Gcd(_, _)
Gcd(a, b) == IF b = 0 THEN a ELSE Gcd(b, a % b)

\* the reduced fraction n/d, d # 0
Frac(n, d) ==
    LET g == Gcd(Abs(n), Abs(d))
    IN  IF d < 0 THEN <<(-n) \div g, (-d) \div g>> ELSE <<n \div g, d \div g>>

F(n) == <<n, 1>>

IsNaN(a) == a = NaN
IsInf(a) == a = PInf \/ a = NInf
IsFinite(a) == a[2] > 0
FSign(a) == Sgn(a[1])

FNeg(a) == <<-a[1], a[2]>>

FAbs(a) == <<Abs(a[1]), a[2]>>

\* a == b on floats: NaN equals nothing
FEq(a, b) == ~IsNaN(a) /\ ~IsNaN(b) /\ a = b

\* a < b on floats: every comparison with NaN is False
FLt(a, b) ==
    IF IsNaN(a) \/ IsNaN(b) THEN FALSE
    ELSE IF IsInf(a) \/ IsInf(b)
         THEN (a = NInf /\ b # NInf) \/ (b = PInf /\ a # PInf)
         ELSE LET g == Gcd(a[2], b[2])
              IN  a[1] * (b[2] \div g) < b[1] * (a[2] \div g)

FGt(a, b) == FLt(b, a)
FLe(a, b) == FLt(a, b) \/ FEq(a, b)
FGe(a, b) == FLe(b, a)

FSub(a, b) ==
    IF IsNaN(a) \/ IsNaN(b) THEN NaN
    ELSE IF IsInf(a) THEN (IF a = b THEN NaN ELSE a)
    ELSE IF IsInf(b) THEN FNeg(b)
    ELSE LET g == Gcd(a[2], b[2])
         IN  Frac(a[1] * (b[2] \div g) - b[1] * (a[2] \div g), a[2] * (b[2] \div g))

FMul(a, b) ==
    IF IsNaN(a) \/ IsNaN(b) THEN NaN
    ELSE IF IsInf(a) \/ IsInf(b)
         THEN (IF FSign(a) * FSign(b) = 0 THEN NaN ELSE <<FSign(a) * FSign(b), 0>>)
         ELSE LET g == Gcd(Abs(a[1]), b[2])
                  h == Gcd(Abs(b[1]), a[2])
              IN  Frac((a[1] \div g) * (b[1] \div h), (a[2] \div h) * (b[2] \div g))

\* a / b in IEEE arithmetic (numpy, pandas): x/0 is +-inf, 0/0 is NaN
FDiv(a, b) ==
    IF IsNaN(a) \/ IsNaN(b) THEN NaN
    ELSE IF IsInf(a) THEN (IF IsInf(b) THEN NaN
                           ELSE IF FSign(b) < 0 THEN FNeg(a) ELSE a)
    ELSE IF IsInf(b) THEN F(0)
    ELSE IF b[1] = 0 THEN (IF a[1] = 0 THEN NaN ELSE <<FSign(a), 0>>)
    ELSE LET g == Gcd(Abs(a[1]), Abs(b[1]))
             h == Gcd(a[2], b[2])
         IN  Frac((a[1] \div g) * (b[2] \div h), (a[2] \div h) * (b[1] \div g))

(***************************************************************************)
(* Tables.  A DataFrame is [cols |-> column names, rows |-> sequence of    *)
(* rows]; a row maps "idx" to its index label and each column name to a    *)
(* cell.  Columns: "t" (time, min), "A", "A0", "A_A0" (the ratio A/A0),    *)
(* "ln_A_A0", "inv_A".  A raw cell is Num(float) (a number, None or NaN)   *)
(* or Str(text), the text a sequence of characters; a numeric column       *)
(* holds floats.                                                           *)
(***************************************************************************)
Num(f) == [num |-> f]
Str(s) == [str |-> s]
IsStr(c) == "str" \in DOMAIN c

Table(cols, rows) == [cols |-> cols, rows |-> rows]

WithCol(row, c, v) == [k \in DOMAIN row \cup {c} |-> IF k = c THEN v ELSE row[k]]

\* df[c] = v for a column computed row by row
SetCol(tb, c, Val(_)) ==
    Table(tb.cols \cup {c}, [k \in 1..Len(tb.rows) |-> WithCol(tb.rows[k], c, Val(tb.rows[k]))])

\* df[mask]
Filter(tb, Keep(_)) == Table(tb.cols, SelectSeq(tb.rows, Keep))

Column(tb, c) == [k \in 1..Len(tb.rows) |-> tb.rows[k][c]]

Indices(tb) == {tb.rows[k]["idx"] : k \in 1..Len(tb.rows)}

RowsOf(tb) == {tb.rows[k] : k \in 1..Len(tb.rows)}

\* the row of tb with index label ix
RowAt(tb, ix) == CHOOSE row \in RowsOf(tb) : row["idx"] = ix

(***************************************************************************)
(* Parsing text.                                                           *)
(***************************************************************************)
DigitChars == <<"0", "1", "2", "3", "4", "5", "6", "7", "8", "9">>
IsDigit(c) == \E k \in 1..10 : DigitChars[k] = c
DigitOf(c) == (CHOOSE k \in 1..10 : DigitChars[k] = c) - 1

RECURSIVE Pow10(_)
Pow10(k) == IF k = 0 THEN 1 ELSE 10 * Pow10(k - 1)

\* the digits of s read as one integer, the decimal point passed over
RECURSIVE Mantissa(_, _)
Mantissa(s, acc) ==
    IF s = <<>> THEN acc
    ELSE IF Head(s) = "." THEN Mantissa(Tail(s), acc)
    ELSE Mantissa(Tail(s), 10 * acc + DigitOf(Head(s)))

\* float(text) for signed decimal text: [-]digits[.digits]; NaN stands for ValueError
ParseFloat(s) ==
    LET neg == s # <<>> /\ Head(s) = "-"
        body == IF neg THEN Tail(s) ELSE s
        dots == {k \in 1..Len(body) : body[k] = "."}
        ndigits == Cardinality({k \in 1..Len(body) : IsDigit(body[k])})
        wellformed == /\ \A k \in 1..Len(body) : IsDigit(body[k]) \/ body[k] = "."
                      /\ Cardinality(dots) <= 1
                      /\ ndigits >= 1
        decimals == IF dots = {} THEN 0 ELSE Len(body) - (CHOOSE k \in dots : TRUE)
        m == Mantissa(body, 0)
    IN  IF wellformed THEN Frac(IF neg THEN -m ELSE m, Pow10(decimals)) ELSE NaN

\* str.strip()
RECURSIVE Strip(_)
Strip(s) ==
    IF s # <<>> /\ Head(s) = " " THEN Strip(Tail(s))
    ELSE IF s # <<>> /\ s[Len(s)] = " " THEN Strip(SubSeq(s, 1, Len(s) - 1))
    ELSE s

\* str.replace(',', '.')
ReplaceComma(s) == [k \in 1..Len(s) |-> IF s[k] = "," THEN "." ELSE s[k]]

\* pd.to_numeric(value, errors='coerce') on one cell
to_numeric(c) == IF IsStr(c) THEN ParseFloat(c.str) ELSE c.num

\* data_processor.convert_european_decimal
convert_european_decimal(value) ==
    IF ~IsStr(value) THEN value.num
    ELSE ParseFloat(ReplaceComma(Strip(value.str)))

\* the strict conversion alone, without the second pass of lines 87-92
StrictOnly(c) == to_numeric(c)

\* the chain of lines 84-92 (and 99-106) on one cell: the strict conversion, and
\* for the cells it left NaN the conversion of the original value
ParseCell(c) ==
    LET strict == to_numeric(c)
    IN  IF IsNaN(strict) THEN convert_european_decimal(c) ELSE strict

(***************************************************************************)
(* np.log.  LN2 is ln 2 to three digits; Ln is exact (k * LN2) on the       *)
(* powers of two 2^k and interpolates linearly between neighbouring        *)
(* powers of two elsewhere.                                                *)
(***************************************************************************)
LN2 == Frac(693, 1000)

FAdd(a, b) == FSub(a, FNeg(b))

\* log2 of a finite q > 0, interpolated between powers of two
RECURSIVE Log2(_)
Log2(q) ==
    IF FLt(q, F(1)) THEN FSub(Log2(FMul(q, F(2))), F(1))
    ELSE IF FGe(q, F(2)) THEN FAdd(Log2(FDiv(q, F(2))), F(1))
    ELSE FSub(q, F(1))

Ln(q) ==
    IF IsNaN(q) \/ FLt(q, F(0)) THEN NaN
    ELSE IF q = PInf THEN PInf
    ELSE IF FEq(q, F(0)) THEN NInf
    ELSE FMul(Log2(q), LN2)

RECURSIVE Pow2(_)
Pow2(k) == IF k = 0 THEN F(1)
           ELSE IF k > 0 THEN FMul(F(2), Pow2(k - 1))
           ELSE FDiv(Pow2(k + 1), F(2))

\* np.exp, the inverse of Ln: 2^k * (1 + f) where x / LN2 = k + f, 0 <= f < 1
Exp(x) ==
    IF IsNaN(x) THEN NaN
    ELSE IF x = PInf THEN PInf
    ELSE IF x = NInf THEN F(0)
    ELSE LET z == FDiv(x, LN2)
             k == z[1] \div z[2]
             f == FSub(z, F(k))
         IN  FMul(Pow2(k), FAdd(F(1), f))

(***************************************************************************)
(* data_processor.preprocess_data(df), one action per block of the         *)
(* function; pc is the block about to run.                                 *)
(***************************************************************************)
Required == {"t", "A", "A0"}

\* lines 78-92: the required columns converted, the other columns as they were
Parsed(tb) ==
    [tb EXCEPT !.rows = [k \in 1..Len(tb.rows) |->
        [c \in DOMAIN tb.rows[k] |->
            IF c \in Required THEN ParseCell(tb.rows[k][c]) ELSE tb.rows[k][c]]]]

\* the conversion done on the argument itself, without the copy of line 78
PreParseInPlace ==
    /\ pc = "pre_parse"
    /\ df' = Parsed(df)
    /\ processed_df' = Parsed(df)
    /\ pc' = "pre_ratio"
    /\ UNCHANGED <<input_method, uploaded, edited, msgs, selected_data>>
    /\ UNCHANGED scanvars
    /\ UNCHANGED fitvars
    /\ UNCHANGED runvars

PreParse ==
    /\ pc = "pre_parse"
    /\ processed_df' = Parsed(df)
    /\ pc' = "pre_ratio"
    /\ UNCHANGED <<input_method, uploaded, edited, df, msgs, selected_data>>
    /\ UNCHANGED scanvars
    /\ UNCHANGED fitvars
    /\ UNCHANGED runvars

\* line 96 and line 111
ComputedRatio(row) == FDiv(row["A"], row["A0"])

\* lines 99-106 alone: no recomputation of the cells still NaN
ParsedRatioNoRecompute(row) == ParseCell(row["A_A0"])

\* lines 99-111 on one row
ParsedRatio(row) ==
    LET parsed == ParseCell(row["A_A0"])
    IN  IF IsNaN(parsed) THEN ComputedRatio(row) ELSE parsed

\* lines 95-111
WithRatio(tb) ==
    IF "A_A0" \notin tb.cols
    THEN SetCol(tb, "A_A0", ComputedRatio)
    ELSE SetCol(tb, "A_A0", ParsedRatio)

PreRatio ==
    /\ pc = "pre_ratio"
    /\ processed_df' = WithRatio(processed_df)
    /\ pc' = "pre_dropna"
    /\ UNCHANGED <<input_method, uploaded, edited, df, msgs, selected_data>>
    /\ UNCHANGED scanvars
    /\ UNCHANGED fitvars
    /\ UNCHANGED runvars

Essential == {"t", "A", "A0", "A_A0"}

\* dropna over the required columns only
NoNaNRequired(row) == \A c \in Required : ~IsNaN(row[c])

\* line 114
NoNaN(row) == \A c \in Essential : ~IsNaN(row[c])

\* the rows without NaN handed on in reverse order
PreDropnaReversed ==
    /\ pc = "pre_dropna"
    /\ processed_df' =
         LET kept == Filter(processed_df, NoNaN)
         IN  Table(kept.cols,
                   [k \in 1..Len(kept.rows) |-> kept.rows[Len(kept.rows) + 1 - k]])
    /\ pc' = "pre_filter"
    /\ UNCHANGED <<input_method, uploaded, edited, df, msgs, selected_data>>
    /\ UNCHANGED scanvars
    /\ UNCHANGED fitvars
    /\ UNCHANGED runvars

PreDropna ==
    /\ pc = "pre_dropna"
    /\ processed_df' = Filter(processed_df, NoNaN)
    /\ pc' = "pre_filter"
    /\ UNCHANGED <<input_method, uploaded, edited, df, msgs, selected_data>>
    /\ UNCHANGED scanvars
    /\ UNCHANGED fitvars
    /\ UNCHANGED runvars

\* the filter keeping zero
NonNegative(tb, c) ==
    IF Len(tb.rows) > 0 /\ \E k \in 1..Len(tb.rows) : FLt(tb.rows[k][c], F(0))
    THEN Filter(tb, LAMBDA row : FGe(row[c], F(0)))
    ELSE tb

\* lines 117-118, 121-122, 125-126: one column's filter
Positive(tb, c) ==
    IF Len(tb.rows) > 0 /\ \E k \in 1..Len(tb.rows) : FLe(tb.rows[k][c], F(0))
    THEN Filter(tb, LAMBDA row : FGt(row[c], F(0)))
    ELSE tb

\* lines 116-126
PreFilter ==
    /\ pc = "pre_filter"
    /\ processed_df' = Positive(Positive(Positive(processed_df, "A_A0"), "A"), "A0")
    /\ pc' = "pre_derive"
    /\ UNCHANGED <<input_method, uploaded, edited, df, msgs, selected_data>>
    /\ UNCHANGED scanvars
    /\ UNCHANGED fitvars
    /\ UNCHANGED runvars

\* lines 128-133
PreDerive ==
    /\ pc = "pre_derive"
    /\ processed_df' =
         IF Len(processed_df.rows) > 0
         THEN SetCol(SetCol(processed_df, "ln_A_A0", LAMBDA row : Ln(row["A_A0"])),
                     "inv_A", LAMBDA row : FDiv(F(1), row["A"]))
         ELSE processed_df
    /\ pc' = "pre_ret"
    /\ UNCHANGED <<input_method, uploaded, edited, df, msgs, selected_data>>
    /\ UNCHANGED scanvars
    /\ UNCHANGED fitvars
    /\ UNCHANGED runvars

PreStep == PreParse \/ PreRatio \/ PreDropna \/ PreFilter \/ PreDerive

(***************************************************************************)
(* find_stable_points(y, t, threshold), one action per loop iteration.     *)
(* Python positions are 0-based: y.iloc[k] is y[k + 1].                    *)
(***************************************************************************)
Last(s) == s[Len(s)]

\* the difference taken against the point just before the candidate
delta_y_adjacent == FSub(y[i + 1], y[i])

delta_y == FSub(y[i + 1], y[Last(stable_indices) + 1])
delta_t == FSub(t[i + 1], t[Last(stable_indices) + 1])

\* the guard of line 34 passing over a candidate whose value did not change as well
ZeroDeltaOrFlat == FEq(delta_t, F(0)) \/ FEq(delta_y, F(0))

\* the guard of line 34 left out
NoZeroDeltaCheck == FALSE

\* line 34: if delta_t == 0
ZeroDelta == FEq(delta_t, F(0))

\* line 38; a division whose divisor is zero is marked: the guards of lines 34
\* and 45 are there to keep it from happening
ZeroDivision == <<"ZeroDivision">>
Divide(a, b) == IF FEq(b, F(0)) THEN ZeroDivision ELSE FDiv(a, b)

current_slope == Divide(delta_y, delta_t)

\* lines 45-52 with a ceiling on the magnitude as well: a slope more than
\* 1 / threshold times the reference breaks too
SlopeChangedBanded(cur) ==
    IF ~FEq(initial_slope, F(0))
    THEN LET slope_ratio == FAbs(FDiv(cur, initial_slope))
         IN  \/ FLt(slope_ratio, threshold)
             \/ FLt(FMul(cur, previous_slope), F(0))
             \/ FGt(FMul(slope_ratio, threshold), F(1))
    ELSE FGt(FAbs(cur), threshold)

\* lines 45-52 with the sign test of line 47 applied under a zero reference too
SlopeChangedSignAlways(cur) ==
    IF ~FEq(initial_slope, F(0))
    THEN LET slope_ratio == FAbs(FDiv(cur, initial_slope))
         IN  FLt(slope_ratio, threshold) \/ FLt(FMul(cur, previous_slope), F(0))
    ELSE FGt(FAbs(cur), threshold) \/ FLt(FMul(cur, previous_slope), F(0))

\* the threshold test of line 47 turned round
SlopeChangedReversed(cur) ==
    IF ~FEq(initial_slope, F(0))
    THEN LET slope_ratio == FAbs(FDiv(cur, initial_slope))
         IN  FGt(slope_ratio, threshold) \/ FLt(FMul(cur, previous_slope), F(0))
    ELSE FGt(FAbs(cur), threshold)

\* lines 45-52: the two break conditions
SlopeChanged(cur) ==
    IF ~FEq(initial_slope, F(0))
    THEN LET slope_ratio == FAbs(FDiv(cur, initial_slope))
         IN  FLt(slope_ratio, threshold) \/ FLt(FMul(cur, previous_slope), F(0))
    ELSE FGt(FAbs(cur), threshold)

InLoop == pc = "scan" /\ i < Len(y)

\* a division by zero at line 38 ends the call (ZeroDivisionError)
Raises == current_slope = ZeroDivision

ScanRaise ==
    /\ pc' = "scan_raised"
    /\ UNCHANGED scanvars

\* lines 34-36: continue
ScanSkip ==
    /\ InLoop
    /\ ZeroDelta
    /\ i' = i + 1
    /\ UNCHANGED <<pc, y, t, threshold, stable_indices, initial_slope, previous_slope>>
    /\ UNCHANGED appvars
    /\ UNCHANGED fitvars
    /\ UNCHANGED runvars

\* the first slope put to a test: a flat first segment ends the scan
ScanFirstNonZero ==
    /\ InLoop
    /\ ~ZeroDelta
    /\ initial_slope = None
    /\ IF FEq(current_slope, F(0))
       THEN /\ pc' = "scan_done"
            /\ UNCHANGED scanvars
       ELSE /\ initial_slope' = current_slope
            /\ stable_indices' = Append(stable_indices, i)
            /\ previous_slope' = current_slope
            /\ i' = i + 1
            /\ UNCHANGED <<pc, y, t, threshold>>
    /\ UNCHANGED appvars
    /\ UNCHANGED fitvars
    /\ UNCHANGED runvars

\* line 54 appending the index before the candidate
ScanFirstOffByOne ==
    /\ InLoop
    /\ ~ZeroDelta
    /\ initial_slope = None
    /\ initial_slope' = current_slope
    /\ stable_indices' = Append(stable_indices, i - 1)
    /\ previous_slope' = current_slope
    /\ i' = i + 1
    /\ UNCHANGED <<pc, y, t, threshold>>
    /\ UNCHANGED appvars
    /\ UNCHANGED fitvars
    /\ UNCHANGED runvars

\* lines 38-42, 54-55: the first computed slope becomes the reference
ScanFirst ==
    /\ InLoop
    /\ ~ZeroDelta
    /\ initial_slope = None
    /\ IF Raises THEN ScanRaise
       ELSE /\ initial_slope' = current_slope
            /\ stable_indices' = Append(stable_indices, i)
            /\ previous_slope' = current_slope
            /\ i' = i + 1
            /\ UNCHANGED <<pc, y, t, threshold>>
    /\ UNCHANGED appvars
    /\ UNCHANGED fitvars
    /\ UNCHANGED runvars

\* lines 38, 43-55: no break, the index is appended
ScanAccept ==
    /\ InLoop
    /\ ~ZeroDelta
    /\ initial_slope # None
    /\ IF Raises THEN TRUE ELSE ~SlopeChanged(current_slope)
    /\ IF Raises THEN ScanRaise
       ELSE /\ stable_indices' = Append(stable_indices, i)
            /\ previous_slope' = current_slope
            /\ i' = i + 1
            /\ UNCHANGED <<pc, y, t, threshold, initial_slope>>
    /\ UNCHANGED appvars
    /\ UNCHANGED fitvars
    /\ UNCHANGED runvars

\* the candidate left out and the scan carried on
ScanBreakResume ==
    /\ InLoop
    /\ ~ZeroDelta
    /\ initial_slope # None
    /\ IF Raises THEN FALSE ELSE SlopeChanged(current_slope)
    /\ i' = i + 1
    /\ UNCHANGED <<pc, y, t, threshold, stable_indices, initial_slope, previous_slope>>
    /\ UNCHANGED appvars
    /\ UNCHANGED fitvars
    /\ UNCHANGED runvars

\* lines 38, 47-52, 57: break, then return stable_indices
ScanBreak ==
    /\ InLoop
    /\ ~ZeroDelta
    /\ initial_slope # None
    /\ IF Raises THEN FALSE ELSE SlopeChanged(current_slope)
    /\ pc' = "scan_done"
    /\ UNCHANGED scanvars
    /\ UNCHANGED appvars
    /\ UNCHANGED fitvars
    /\ UNCHANGED runvars

\* lines 30, 57: the range is exhausted, return stable_indices
ScanReturn ==
    /\ pc = "scan"
    /\ i >= Len(y)
    /\ pc' = "scan_done"
    /\ UNCHANGED scanvars
    /\ UNCHANGED appvars
    /\ UNCHANGED fitvars
    /\ UNCHANGED runvars

ScanStep == ScanSkip \/ ScanFirst \/ ScanAccept \/ ScanBreak \/ ScanReturn

\* lines 45-52 with the break on a ratio above the threshold
BreaksAbove(cur, initial, previous, thr) ==
    IF ~FEq(initial, F(0))
    THEN FGt(FAbs(FDiv(cur, initial)), thr) \/ FLt(FMul(cur, previous), F(0))
    ELSE FGt(FAbs(cur), thr)

\* lines 45-52 as a function of the slopes and the threshold
Breaks(cur, initial, previous, thr) ==
    IF ~FEq(initial, F(0))
    THEN FLt(FAbs(FDiv(cur, initial)), thr) \/ FLt(FMul(cur, previous), F(0))
    ELSE FGt(FAbs(cur), thr)

\* lines 30-57 from candidate k on, the list, the reference slope and the
\* previous slope being acc, initial and previous
RECURSIVE ScanFrom(_, _, _, _, _, _, _)
ScanFrom(ys, ts, thr, k, acc, initial, previous) ==
    IF k >= Len(ys) THEN acc
    ELSE LET dy == FSub(ys[k + 1], ys[Last(acc) + 1])
             dt == FSub(ts[k + 1], ts[Last(acc) + 1])
             cur == FDiv(dy, dt)
         IN  IF FEq(dt, F(0)) THEN ScanFrom(ys, ts, thr, k + 1, acc, initial, previous)
             ELSE IF initial = None
                  THEN ScanFrom(ys, ts, thr, k + 1, Append(acc, k), cur, cur)
             ELSE IF Breaks(cur, initial, previous, thr) THEN acc
             ELSE ScanFrom(ys, ts, thr, k + 1, Append(acc, k), initial, cur)

\* kinetic_models.find_stable_points as a function of its arguments
find_stable_points(ys, ts, thr) == ScanFrom(ys, ts, thr, 1, <<0>>, None, F(0))

(***************************************************************************)
(* The region selector on its own: any series of up to MaxLen points and   *)
(* any threshold.                                                          *)
(***************************************************************************)
TimeVals == {F(0), F(2), F(5)}
YVals == {F(0), F(-2), F(-5), PInf}
ThresholdVals == {Frac(1, 10), F(1), F(0), NaN}

SeqsOf(S, n) == UNION {[1..k -> S] : k \in 1..n}

\* lines 26-28
ScanInit ==
    /\ pc = "scan"
    /\ i = 1
    /\ stable_indices = <<0>>
    /\ initial_slope = None
    /\ previous_slope = F(0)

NoApp ==
    /\ input_method = None
    /\ uploaded = None
    /\ edited = None
    /\ df = None
    /\ msgs = {}
    /\ processed_df = None
    /\ selected_data = None

NoFit ==
    /\ pfo = None
    /\ pso = None
    /\ results_summary = None
    /\ metric_cards = None
    /\ detailed_results = None

\* lines 747-748 and 839-840: a new session remembers no first A value
Fresh == [uploaded_first_a_value |-> None, first_a_value |-> None]

NoRuns ==
    /\ session_state = Fresh
    /\ notified = FALSE
    /\ clicked = FALSE
    /\ earlier = None

\* the four sampling times 0, 2, 5, 10 with values taken among those of the
\* noiseless first-order series y = -0.05 * t, at the threshold of app.main
ScenarioT == <<F(0), F(2), F(5), F(10)>>
ScenarioYVals == {F(0), Frac(-1, 10), Frac(-1, 4), Frac(-1, 2)}

InitScan ==
    /\ \/ /\ t \in SeqsOf(TimeVals, MaxLen)
          /\ y \in [1..Len(t) -> YVals]
          /\ threshold \in ThresholdVals
       \/ /\ t = ScenarioT
          /\ y \in [1..Len(ScenarioT) -> ScenarioYVals]
          /\ threshold = Frac(1, 10)
    /\ ScanInit
    /\ NoApp
    /\ NoFit
    /\ NoRuns

SpecScan == InitScan /\ [][ScanStep]_vars

(***************************************************************************)
(* The preprocessor on its own: any raw table of up to MaxRows rows that   *)
(* has the required columns, with or without the ratio column.  A row has  *)
(* at most one cell outside the plain values, or is one of ExtraRows.      *)
(***************************************************************************)
Comma15 == Str(<<"1", ",", "5">>)
Comma05 == Str(<<"0", ",", "5">>)
Dot05 == Str(<<"0", ".", "5">>)
Text4 == Str(<<"4">>)
TextX == Str(<<"x">>)
TextTwoCommas == Str(<<"1", ",", "5", ",", "5">>)

Plain == [t |-> {Num(F(2))}, A |-> {Num(F(2))}, A0 |-> {Num(F(2))},
          A_A0 |-> {Num(Frac(1, 2))}]

Rich == [t |-> {Num(F(0)), Num(F(-1)), Num(PInf), Num(NaN), Comma15, TextX},
         A |-> {Num(F(0)), Num(F(-1)), Num(PInf), Num(NaN), Comma05, Text4, TextX},
         A0 |-> {Num(F(0)), Num(F(-1)), Num(PInf), Comma05, TextX},
         A_A0 |-> {Num(F(0)), Num(F(-1)), Num(PInf), Num(NaN), Comma05, Dot05,
                   TextX, TextTwoCommas}]

RawCells(cols) == [cols -> UNION {Plain[c] \cup Rich[c] : c \in cols}]

ExtraCells ==
    { [t |-> Num(F(2)), A |-> Num(PInf), A0 |-> Num(PInf), A_A0 |-> TextX],
      [t |-> Num(F(2)), A |-> Num(F(0)), A0 |-> Num(F(0)), A_A0 |-> Num(NaN)],
      [t |-> Num(F(0)), A |-> Num(PInf), A0 |-> Num(F(2)), A_A0 |-> TextX],
      [t |-> TextX, A |-> TextX, A0 |-> Num(F(2)), A_A0 |-> Comma05] }

\* the cells of one raw row over the columns cols
RawRowCells(cols) ==
    { r \in RawCells(cols) :
        /\ \A c \in cols : r[c] \in Plain[c] \cup Rich[c]
        /\ Cardinality({c \in cols : r[c] \notin Plain[c]}) <= 1 }
    \cup { [c \in cols |-> e[c]] : e \in ExtraCells }

\* a table with a RangeIndex: row k has index label k - 1
Indexed(cols, cells) ==
    Table(cols, [k \in 1..Len(cells) |-> WithCol(cells[k], "idx", k - 1)])

RawTables(n) ==
    UNION { { Indexed(cols, cells) : cells \in SeqsOf(RawRowCells(cols), n) } :
            cols \in {Required, Essential} }

NoScan ==
    /\ y = <<>>
    /\ t = <<>>
    /\ threshold = None
    /\ i = 0
    /\ stable_indices = <<>>
    /\ initial_slope = None
    /\ previous_slope = F(0)

InitPre ==
    /\ pc = "pre_parse"
    /\ df \in RawTables(MaxRows)
    /\ processed_df = None
    /\ selected_data = None
    /\ input_method = None
    /\ uploaded = None
    /\ edited = None
    /\ msgs = {}
    /\ NoScan
    /\ NoFit
    /\ NoRuns

SpecPre == InitPre /\ [][PreStep]_vars

(***************************************************************************)
(* app.main: one run of the script.  RunUpload and RunManual are the two   *)
(* branches of the input method (lines 603-953); the run then goes on at   *)
(* line 955 (pc = "process") unless the branch returned (pc = "end").      *)
(* msgs holds the st.error, st.warning and prompting st.info calls made.   *)
(***************************************************************************)
Out(d, m, returned) == [df |-> d, msgs |-> m, returned |-> returned]

\* data_processor.validate_data_structure: "" when valid, else the error
validate_data_structure(tb) ==
    IF Len(tb.rows) = 0 THEN "file_empty"
    ELSE IF ~(Required \subseteq tb.cols) THEN "missing_columns"
    ELSE ""

\* some cell of the columns cs is text: arithmetic and comparisons on it raise
HasText(tb, cs) == \E k \in 1..Len(tb.rows) : \E c \in cs \cap tb.cols : IsStr(tb.rows[k][c])

\* Series.round(4): to four decimals, ties to even
Round4(f) ==
    IF ~IsFinite(f) THEN f
    ELSE LET n == Abs(f[1]) * 10000
             q == n \div f[2]
             r == n % f[2]
             up == 2 * r > f[2] \/ (2 * r = f[2] /\ q % 2 = 1)
         IN  Frac(Sgn(f[1]) * (IF up THEN q + 1 ELSE q), 10000)

\* lines 801, 894, 928: the rows kept by the positivity mask
ValidRow(row) ==
    /\ FGt(row["A"].num, F(0))
    /\ FGt(row["A0"].num, F(0))
    /\ FGe(row["t"].num, F(0))

\* lines 675-703: only reached when the table has no A0 column
AutoA0(tb) ==
    LET numeric == SetCol(tb, "A", LAMBDA row : Num(to_numeric(row["A"])))
        valid_a == SelectSeq(numeric.rows, LAMBDA row : FGt(row["A"].num, F(0)))
    IN  IF valid_a # <<>>
        THEN [ok |-> TRUE, df |-> SetCol(numeric, "A0", LAMBDA row : valid_a[1]["A"])]
        ELSE [ok |-> FALSE, df |-> numeric]

\* lines 751-755: the two columns shown in the editor
Display(tb) ==
    Table({"t", "A"},
          [k \in 1..Len(tb.rows) |-> [c \in {"idx", "t", "A"} |-> tb.rows[k][c]]])

\* lines 784-822, after st.data_editor returned ed; d is df as it stands
AfterEdit(d, ed) ==
    IF Len(ed.rows) = 0 THEN Out(d, {}, FALSE)
    ELSE IF IsStr(ed.rows[1]["A"]) THEN Out(d, {"read_error"}, FALSE)
    ELSE IF ~FGt(ed.rows[1]["A"].num, F(0)) THEN Out(d, {}, FALSE)
    ELSE IF HasText(ed, {"A", "t"}) THEN Out(d, {"read_error"}, FALSE)
    ELSE LET first_a_value == ed.rows[1]["A"]
             populated == SetCol(ed, "A0", LAMBDA row : first_a_value)
             valid == Filter(populated, ValidRow)
         IN  IF Len(valid.rows) > 0
             THEN Out(SetCol(valid, "A_A0",
                             LAMBDA row : Num(Round4(FDiv(row["A"].num, row["A0"].num)))),
                      {}, FALSE)
             ELSE Out(None, {"no_valid_after_edit"}, FALSE)

\* lines 603-829 up to the editor: either the outcome of the branch, or the df
\* the editor is shown for
BeforeEdit(file) ==
    IF file = None THEN Out(None, {"upload_prompt"}, FALSE)
    ELSE IF Len(file.rows) = 0 THEN Out(None, {"file_empty"}, TRUE)
    ELSE IF validate_data_structure(file) # ""
         THEN Out(None, {validate_data_structure(file)}, TRUE)
    ELSE LET a0 == IF "A0" \notin file.cols THEN AutoA0(file)
                   ELSE [ok |-> TRUE, df |-> file]
         IN  IF ~a0.ok THEN Out(None, {"a0_undetermined"}, TRUE)
             ELSE IF "A_A0" \in a0.df.cols THEN [editing |-> a0.df]
             ELSE IF HasText(a0.df, {"A", "A0"}) THEN Out(a0.df, {"read_error"}, FALSE)
             ELSE [editing |-> SetCol(a0.df, "A_A0",
                                      LAMBDA row : Num(FDiv(row["A"].num, row["A0"].num)))]

Editing(b) == "editing" \in DOMAIN b

\* what the user did in the editor: left the table alone, or set the A of row 0
NoEdit == [keep |-> TRUE]
ApplyEdit(tb, e) ==
    IF e = NoEdit THEN tb
    ELSE [tb EXCEPT !.rows[1] = WithCol(tb.rows[1], "A", e)]

\* manual entry without the check of the order of the times (lines 946-947)
ManualOutcomeUnordered(ed, pressed) ==
    IF ~pressed THEN Out(None, {}, FALSE)
    ELSE IF Len(ed.rows) = 0 THEN Out(None, {"manual_empty"}, FALSE)
    ELSE IF ~FGt(ed.rows[1]["A"].num, F(0)) THEN Out(None, {"first_a_not_positive"}, TRUE)
    ELSE LET first_a_value == ed.rows[1]["A"]
             populated == SetCol(ed, "A0", LAMBDA row : first_a_value)
             valid == Filter(populated, ValidRow)
             valid_data == SetCol(valid, "A_A0",
                                  LAMBDA row : Num(FDiv(row["A"].num, row["A0"].num)))
             times == Column(valid_data, "t")
             duplicated == \E j, k \in 1..Len(times) : j < k /\ FEq(times[j].num, times[k].num)
         IN  IF Len(valid.rows) = 0 THEN Out(None, {"no_valid_data"}, FALSE)
             ELSE IF validate_data_structure(valid_data) # ""
                  THEN Out(None, {validate_data_structure(valid_data)}, FALSE)
             ELSE IF duplicated THEN Out(None, {"duplicate_time"}, FALSE)
             ELSE Out(valid_data, {}, FALSE)

\* lines 831-953: manual entry, the button pressed or not
ManualOutcome(ed, pressed) ==
    IF ~pressed THEN Out(None, {}, FALSE)
    ELSE IF Len(ed.rows) = 0 THEN Out(None, {"manual_empty"}, FALSE)
    ELSE IF ~FGt(ed.rows[1]["A"].num, F(0)) THEN Out(None, {"first_a_not_positive"}, TRUE)
    ELSE LET first_a_value == ed.rows[1]["A"]
             populated == SetCol(ed, "A0", LAMBDA row : first_a_value)
             valid == Filter(populated, ValidRow)
             valid_data == SetCol(valid, "A_A0",
                                  LAMBDA row : Num(FDiv(row["A"].num, row["A0"].num)))
             times == Column(valid_data, "t")
             duplicated == \E j, k \in 1..Len(times) : j < k /\ FEq(times[j].num, times[k].num)
             monotonic == \A k \in 1..(Len(times) - 1) : FLe(times[k].num, times[k + 1].num)
         IN  IF Len(valid.rows) = 0 THEN Out(None, {"no_valid_data"}, FALSE)
             ELSE IF validate_data_structure(valid_data) # ""
                  THEN Out(None, {validate_data_structure(valid_data)}, FALSE)
             ELSE IF duplicated THEN Out(None, {"duplicate_time"}, FALSE)
             ELSE IF ~monotonic THEN Out(None, {"not_increasing"}, FALSE)
             ELSE Out(valid_data, {}, FALSE)

(***************************************************************************)
(* The inputs of a run.                                                    *)
(***************************************************************************)
EntryT == {F(0), F(2)}
EntryA == {F(0), F(1), F(2)}
TextA == {Str(<<"1", ",", "0">>), Str(<<"2", ",", "0">>), TextX}
FileA0 == F(4)

\* the rows of a file whose numbers are stored as numbers
NumberRows(cols) ==
    { [c \in cols |-> [t |-> Num(tv), A |-> Num(a), A0 |-> Num(FileA0),
                       A_A0 |-> Num(FDiv(a, FileA0))][c]] :
      tv \in EntryT, a \in EntryA }

\* the rows of a file whose A, A0 and ratio are stored as text, comma-decimal
\* or not a number at all
TextRows(cols) ==
    { [c \in cols |-> [t |-> Num(tv), A |-> a, A0 |-> Str(<<"4", ",", "0">>),
                       A_A0 |-> TextX][c]] :
      tv \in EntryT, a \in TextA }

\* the rows of a file (CSV) that holds inf: a row with A = 0, a row whose ratio
\* is infinite and a row whose A is infinite
NonFiniteRows(cols) ==
    { [c \in cols |-> r[c]] : r \in
        { [t |-> Num(F(0)), A |-> Num(F(0)), A0 |-> Num(FileA0), A_A0 |-> Num(F(0))],
          [t |-> Num(F(2)), A |-> Num(F(1)), A0 |-> Num(FileA0), A_A0 |-> Num(PInf)],
          [t |-> Num(F(2)), A |-> Num(PInf), A0 |-> Num(FileA0),
           A_A0 |-> Num(Frac(1, 4))] } }

Seqs0(S, n) == UNION {[1..k -> S] : k \in 0..n}

FileTablesOver(cols) ==
    UNION { { Indexed(cols, cells) : cells \in Seqs0(rows, MaxEntry) } :
            rows \in {NumberRows(cols), TextRows(cols), NonFiniteRows(cols)} }

FileTables == UNION { FileTablesOver(cols) : cols \in {Essential, Required, {"t", "A"}} }

Edits == {NoEdit, Num(F(0)), Num(F(2))}

ManualRows == { [t |-> Num(tv), A |-> Num(a)] : tv \in EntryT \cup {NaN}, a \in EntryA }

ManualTables == { Indexed({"t", "A"}, cells) : cells \in Seqs0(ManualRows, MaxEntry) }

Finish(o) ==
    /\ df' = o.df
    /\ msgs' = o.msgs
    /\ pc' = IF o.returned THEN "end" ELSE "process"
    /\ UNCHANGED <<processed_df, selected_data>>
    /\ UNCHANGED scanvars
    /\ UNCHANGED fitvars

\* lines 789-790 and 883-884: the first A of the edited table when the test
\* 'len > 0 and iloc[0][A] > 0' passes, else None
FirstA(ed) ==
    IF ed = None THEN None
    ELSE IF Len(ed.rows) = 0 THEN None
    ELSE IF IsStr(ed.rows[1]["A"]) THEN None
    ELSE IF FGt(ed.rows[1]["A"].num, F(0)) THEN ed.rows[1]["A"].num
    ELSE None

\* lines 796-798 and 889-891 on the remembered value of one key: a first A other
\* than the remembered one is remembered and announced with st.success
Remember(key, first_a) ==
    /\ session_state' = IF first_a # None /\ first_a # session_state[key]
                        THEN [session_state EXCEPT ![key] = first_a]
                        ELSE session_state
    /\ notified' = (first_a # None /\ first_a # session_state[key])

\* the first A of the editor replaced by the remembered value, when there is one
Sticky(ed) ==
    IF session_state.uploaded_first_a_value = None \/ Len(ed.rows) = 0 THEN ed
    ELSE [ed EXCEPT !.rows[1] =
             WithCol(ed.rows[1], "A", Num(session_state.uploaded_first_a_value))]

\* the upload branch working from the remembered first A
UploadRunSticky(file, e) ==
    /\ input_method' = "upload"
    /\ uploaded' = file
    /\ clicked' = FALSE
    /\ earlier' = earlier
    /\ LET b == BeforeEdit(file)
       IN  IF Editing(b)
           THEN /\ edited' = ApplyEdit(Display(b.editing), e)
                /\ Finish(AfterEdit(b.editing, Sticky(edited')))
                /\ Remember("uploaded_first_a_value", FirstA(edited'))
           ELSE /\ edited' = None
                /\ Finish(b)
                /\ Remember("uploaded_first_a_value", None)

\* lines 603-829 for the file and the edit of this run
UploadRun(file, e) ==
    /\ input_method' = "upload"
    /\ uploaded' = file
    /\ clicked' = FALSE
    /\ earlier' = earlier
    /\ LET b == BeforeEdit(file)
       IN  IF Editing(b)
           THEN /\ edited' = ApplyEdit(Display(b.editing), e)
                /\ Finish(AfterEdit(b.editing, edited'))
                /\ Remember("uploaded_first_a_value", FirstA(edited'))
           ELSE /\ edited' = None
                /\ Finish(b)
                /\ Remember("uploaded_first_a_value", None)

\* lines 831-953 for the table entered and the button of this run
ManualEntry(ed, button) ==
    /\ input_method' = "manual"
    /\ uploaded' = None
    /\ edited' = ed
    /\ clicked' = button
    /\ earlier' = earlier
    /\ Finish(ManualOutcome(ed, button))
    /\ Remember("first_a_value", FirstA(ed))

\* the first run of the script in a session, its file among files
RunUploadOf(files) ==
    /\ pc = "start"
    /\ earlier = None
    /\ \E file \in files, e \in Edits : UploadRun(file, e)

\* the first run of the script in a session, its table among tables
RunManualOf(tables) ==
    /\ pc = "start"
    /\ earlier = None
    /\ \E ed \in tables, button \in BOOLEAN : ManualEntry(ed, button)

\* lines 603-829
RunUpload == RunUploadOf(FileTables \cup {None})

\* lines 831-953
RunManual == RunManualOf(ManualTables)

\* lines 955-960: preprocess_data(df) is called
ProcessData ==
    /\ pc = "process"
    /\ df # None
    /\ Len(df.rows) > 0
    /\ pc' = "pre_parse"
    /\ UNCHANGED appvars
    /\ UNCHANGED scanvars
    /\ UNCHANGED fitvars
    /\ UNCHANGED runvars

\* lines 1168-1173
NoData ==
    /\ pc = "process"
    /\ IF df = None THEN TRUE ELSE Len(df.rows) = 0
    /\ msgs' = IF input_method = "manual" THEN msgs \cup {"manual_prompt"} ELSE msgs
    /\ pc' = "end"
    /\ UNCHANGED <<input_method, uploaded, edited, df, processed_df, selected_data>>
    /\ UNCHANGED scanvars
    /\ UNCHANGED fitvars
    /\ UNCHANGED runvars

\* the empty table reported with the message of line 1166
ReportEmptyAsFitError ==
    /\ pc = "pre_ret"
    /\ Len(processed_df.rows) = 0
    /\ msgs' = msgs \cup {"fit_error"}
    /\ pc' = "end"
    /\ UNCHANGED <<input_method, uploaded, edited, df, processed_df, selected_data>>
    /\ UNCHANGED scanvars
    /\ UNCHANGED fitvars
    /\ UNCHANGED runvars

\* lines 962-968
ReportEmpty ==
    /\ pc = "pre_ret"
    /\ Len(processed_df.rows) = 0
    /\ msgs' = msgs \cup {"empty_after_processing"}
    /\ pc' = "end"
    /\ UNCHANGED <<input_method, uploaded, edited, df, processed_df, selected_data>>
    /\ UNCHANGED scanvars
    /\ UNCHANGED fitvars
    /\ UNCHANGED runvars

\* line 1015: the fixed threshold
DefaultThreshold == Frac(1, 10)

\* line 1015 reached without the check of line 962
CallFindStableUnchecked ==
    /\ pc = "pre_ret"
    /\ y' = Column(processed_df, "ln_A_A0")
    /\ t' = Column(processed_df, "t")
    /\ threshold' = DefaultThreshold
    /\ i' = 1
    /\ stable_indices' = <<0>>
    /\ initial_slope' = None
    /\ previous_slope' = F(0)
    /\ pc' = "scan"
    /\ UNCHANGED appvars
    /\ UNCHANGED fitvars
    /\ UNCHANGED runvars

\* lines 962, 971, 1015: find_stable_points is called
CallFindStable ==
    /\ pc = "pre_ret"
    /\ Len(processed_df.rows) # 0
    /\ y' = Column(processed_df, "ln_A_A0")
    /\ t' = Column(processed_df, "t")
    /\ threshold' = DefaultThreshold
    /\ i' = 1
    /\ stable_indices' = <<0>>
    /\ initial_slope' = None
    /\ previous_slope' = F(0)
    /\ pc' = "scan"
    /\ UNCHANGED appvars
    /\ UNCHANGED fitvars
    /\ UNCHANGED runvars

\* DataFrame.iloc[positions]
Iloc(tb, positions) ==
    Table(tb.cols, [k \in 1..Len(positions) |-> tb.rows[positions[k] + 1]])

\* line 1016
SelectRegion ==
    /\ pc = "scan_done"
    /\ selected_data' = Iloc(processed_df, stable_indices)
    /\ pc' = "fit"
    /\ UNCHANGED <<input_method, uploaded, edited, df, msgs, processed_df>>
    /\ UNCHANGED scanvars
    /\ UNCHANGED fitvars
    /\ UNCHANGED runvars

(***************************************************************************)
(* kinetic_models: the two fits and the result tables.  A call that raises *)
(* returns Raise(exception).  The cleaned columns hold floats.             *)
(***************************************************************************)
Raise(e) == [error |-> e]
IsError(r) == "error" \in DOMAIN r

RECURSIVE Sum(_)
Sum(s) == IF s = <<>> THEN F(0) ELSE FAdd(Head(s), Sum(Tail(s)))

Mean(s) == FDiv(Sum(s), F(Len(s)))

AllFinite(s) == \A k \in 1..Len(s) : IsFinite(s[k])

\* curve_fit is called without p0: the parameter starts at 1
InitialGuess == F(1)

\* scipy.optimize.curve_fit(f, xdata, ydata) for a model linear in its one
\* parameter, f(x, k)[j] = offset[j] + k * basis[j]: the inputs are checked for
\* NaN and infinity (check_finite), then least squares gives the closed form;
\* with a zero basis the Jacobian vanishes and the starting value is returned
curve_fit(xdata, ydata, offset, basis) ==
    IF ~AllFinite(xdata) \/ ~AllFinite(ydata) THEN Raise("ValueError")
    ELSE LET n == Len(xdata)
             sxx == Sum([j \in 1..n |-> FMul(basis[j], basis[j])])
             sxy == Sum([j \in 1..n |-> FMul(basis[j], FSub(ydata[j], offset[j]))])
         IN  IF FEq(sxx, F(0)) THEN [popt |-> InitialGuess]
             ELSE [popt |-> FDiv(sxy, sxx)]

\* sklearn.metrics.mean_absolute_percentage_error: mean(|true - pred| / |true|);
\* NaN or infinity in an argument raises
mean_absolute_percentage_error(y_true, y_pred) ==
    IF ~AllFinite(y_true) \/ ~AllFinite(y_pred) THEN Raise("ValueError")
    ELSE [value |-> Mean([j \in 1..Len(y_true) |->
                            FDiv(FAbs(FSub(y_true[j], y_pred[j])), FAbs(y_true[j]))])]

\* sklearn.metrics.r2_score: 1 - SS_res / SS_tot; NaN with fewer than two
\* samples; with SS_tot = 0, 1 for exact predictions and 0 otherwise
r2_score(y_true, y_pred) ==
    IF ~AllFinite(y_true) \/ ~AllFinite(y_pred) THEN Raise("ValueError")
    ELSE IF Len(y_pred) < 2 THEN [value |-> NaN]
    ELSE LET n == Len(y_true)
             avg == Mean(y_true)
             ss_res == Sum([j \in 1..n |-> FMul(FSub(y_true[j], y_pred[j]),
                                                FSub(y_true[j], y_pred[j]))])
             ss_tot == Sum([j \in 1..n |-> FMul(FSub(y_true[j], avg),
                                                FSub(y_true[j], avg))])
         IN  IF ~FEq(ss_tot, F(0)) THEN [value |-> FSub(F(1), FDiv(ss_res, ss_tot))]
             ELSE IF FEq(ss_res, F(0)) THEN [value |-> F(1)]
             ELSE [value |-> F(0)]

\* kinetic_models.pfo_model on one time
pfo_model(tm, k1) == FMul(FNeg(k1), tm)

\* kinetic_models.pso_model on one time
pso_model(tm, k2, A0) == FAdd(FDiv(F(1), A0), FMul(k2, tm))

\* what a fit returns once its predictions are there: the metrics may raise
Fitted(k, predictions, observed, predicted) ==
    LET mape == mean_absolute_percentage_error(observed, predicted)
        r2 == r2_score(observed, predicted)
    IN  IF IsError(mape) THEN mape
        ELSE IF IsError(r2) THEN r2
        ELSE [k |-> k, predictions |-> predictions,
              mape |-> FMul(mape.value, F(100)), r2 |-> r2.value]

\* kinetic_models.fit_pfo_model
fit_pfo_model(selected) ==
    LET ts == Column(selected, "t")
        n == Len(ts)
        fit == curve_fit(ts, Column(selected, "ln_A_A0"),
                         [j \in 1..n |-> F(0)], [j \in 1..n |-> FNeg(ts[j])])
    IN  IF IsError(fit) THEN fit
        ELSE LET k1 == fit.popt
                 predictions ==
                     SetCol(SetCol(selected, "PFO_pred_ln",
                                   LAMBDA row : pfo_model(row["t"], k1)),
                            "PFO_pred", LAMBDA row : Exp(row["PFO_pred_ln"]))
             IN  Fitted(k1, predictions, Column(selected, "A_A0"),
                        Column(predictions, "PFO_pred"))

\* the intercept taken from the dataset-level column A0
ReferenceA0(selected) == selected.rows[1]["A0"]

\* line 125: A0 = selected_data.iloc[0]['А']
LocalA0(selected) == selected.rows[1]["A"]

\* kinetic_models.fit_pso_model
fit_pso_model(selected) ==
    LET A0 == LocalA0(selected)
        ts == Column(selected, "t")
        n == Len(ts)
        fit == curve_fit(ts, Column(selected, "inv_A"),
                         [j \in 1..n |-> FDiv(F(1), A0)], ts)
    IN  IF IsError(fit) THEN fit
        ELSE LET k2 == fit.popt
                 predictions ==
                     SetCol(SetCol(selected, "PSO_pred_inv",
                                   LAMBDA row : pso_model(row["t"], k2, A0)),
                            "PSO_pred", LAMBDA row : FDiv(F(1), row["PSO_pred_inv"]))
             IN  Fitted(k2, predictions, Column(selected, "A"),
                        Column(predictions, "PSO_pred"))

\* the first n decimals of r / d, r < d, appended to the digits acc:
\* <<the digits read as one integer, the remainder left>>
RECURSIVE Decimals(_, _, _, _)
Decimals(r, d, n, acc) ==
    IF n = 0 THEN <<acc, r>>
    ELSE Decimals((r * 10) % d, d, n - 1, acc * 10 + (r * 10) \div d)

\* f'{x:.nf}': x to n decimals, ties to even; the number stands for its text
Fixed(f, n) ==
    IF ~IsFinite(f) THEN f
    ELSE LET a == Abs(f[1])
             dr == Decimals(a % f[2], f[2], n, a \div f[2])
             up == 2 * dr[2] > f[2] \/ (2 * dr[2] = f[2] /\ dr[1] % 2 = 1)
         IN  Frac(Sgn(f[1]) * (IF up THEN dr[1] + 1 ELSE dr[1]), Pow10(n))

\* the summary with the fitted k1 as it is
create_results_summary_signed(k1, k2, mape_pfo, mape_pso, r2_pfo, r2_pso) ==
    << [model |-> "PFO", params |-> Fixed(k1, 5), r2 |-> r2_pfo, mape |-> mape_pfo],
       [model |-> "PSO", params |-> Fixed(k2, 5), r2 |-> r2_pso, mape |-> mape_pso] >>

\* kinetic_models.create_results_summary: the rows of the summary table
create_results_summary(k1, k2, mape_pfo, mape_pso, r2_pfo, r2_pso) ==
    << [model |-> "PFO", params |-> Fixed(FAbs(k1), 5), r2 |-> r2_pfo, mape |-> mape_pfo],
       [model |-> "PSO", params |-> Fixed(k2, 5), r2 |-> r2_pso, mape |-> mape_pso] >>

\* np.abs((observed - predicted) / observed) * 100
PercentError(observed, predicted) ==
    FMul(FAbs(FDiv(FSub(observed, predicted), observed)), F(100))

\* one row of the detail table, from a row of each predictions table
DetailRow(p, q) ==
    [idx |-> p["idx"],
     time |-> p["t"],
     ratio |-> p["A_A0"],
     pfo_pred |-> p["PFO_pred"],
     pfo_error |-> PercentError(p["A_A0"], p["PFO_pred"]),
     a |-> q["A"],
     pso_pred |-> q["PSO_pred"],
     pso_error |-> PercentError(q["A"], q["PSO_pred"])]

\* the detail table with the second-order columns taken in reverse position
create_detailed_results_reversed(pfo_predictions, pso_predictions) ==
    [k \in 1..Len(pfo_predictions.rows) |->
        DetailRow(pfo_predictions.rows[k],
                  pso_predictions.rows[Len(pso_predictions.rows) + 1 - k])]

\* kinetic_models.create_detailed_results: pd.DataFrame of a dict of Series puts
\* in one row the values that carry the same index label; the two tables have
\* the index of selected_data, which is kept as it is
create_detailed_results(pfo_predictions, pso_predictions) ==
    [k \in 1..Len(pfo_predictions.rows) |->
        DetailRow(pfo_predictions.rows[k],
                  RowAt(pso_predictions, pfo_predictions.rows[k]["idx"]))]

\* line 1045, in the try block of lines 1044-1166
FitPfo ==
    /\ pc = "fit"
    /\ LET r == fit_pfo_model(selected_data)
       IN  IF IsError(r)
           THEN /\ msgs' = msgs \cup {"fit_error"}
                /\ pc' = "end"
                /\ pfo' = pfo
           ELSE /\ pfo' = r
                /\ pc' = "fit_pso"
                /\ msgs' = msgs
    /\ UNCHANGED <<input_method, uploaded, edited, df, processed_df, selected_data>>
    /\ UNCHANGED <<pso, results_summary, metric_cards, detailed_results>>
    /\ UNCHANGED scanvars
    /\ UNCHANGED runvars

\* line 1046, in the same try block
FitPso ==
    /\ pc = "fit_pso"
    /\ LET r == fit_pso_model(selected_data)
       IN  IF IsError(r)
           THEN /\ msgs' = msgs \cup {"fit_error"}
                /\ pc' = "end"
                /\ pso' = pso
           ELSE /\ pso' = r
                /\ pc' = "report"
                /\ msgs' = msgs
    /\ UNCHANGED <<input_method, uploaded, edited, df, processed_df, selected_data>>
    /\ UNCHANGED <<pfo, results_summary, metric_cards, detailed_results>>
    /\ UNCHANGED scanvars
    /\ UNCHANGED runvars

\* lines 1055-1123: the summary table, the rate constants of the metric cards
\* and the detail table
Report ==
    /\ pc = "report"
    /\ results_summary' = create_results_summary(pfo.k, pso.k, pfo.mape, pso.mape,
                                                 pfo.r2, pso.r2)
    /\ metric_cards' = [k1 |-> Fixed(FAbs(pfo.k), 5), k2 |-> Fixed(pso.k, 5)]
    /\ detailed_results' = create_detailed_results(pfo.predictions, pso.predictions)
    /\ pc' = "done"
    /\ UNCHANGED <<input_method, uploaded, edited, df, msgs, processed_df, selected_data>>
    /\ UNCHANGED <<pfo, pso>>
    /\ UNCHANGED scanvars
    /\ UNCHANGED runvars

FitStep == FitPfo \/ FitPso \/ Report

(***************************************************************************)
(* The analysis of one table on its own, lines 960-1123 of app.main: any   *)
(* raw table of up to MaxRegion rows that survive the preprocessor, in any *)
(* order of times, and the tables of NonFiniteTables.                      *)
(***************************************************************************)
FitTimes == {F(0), F(2), F(5)}
FitAs == {F(2), F(4), F(8)}

FitRows == { [t |-> Num(tm), A |-> Num(a), A0 |-> Num(FileA0)] : tm \in FitTimes, a \in FitAs }

\* tables with a ratio column that hold an infinite ratio, A or time
NonFiniteTables ==
    { Indexed(Essential, cells) : cells \in SeqsOf(
        { [t |-> Num(F(2)), A |-> Num(F(1)), A0 |-> Num(FileA0), A_A0 |-> Num(PInf)],
          [t |-> Num(F(2)), A |-> Num(PInf), A0 |-> Num(FileA0), A_A0 |-> Num(Frac(1, 4))],
          [t |-> Num(PInf), A |-> Num(F(1)), A0 |-> Num(FileA0), A_A0 |-> Num(Frac(1, 4))],
          [t |-> Num(F(0)), A |-> Num(F(2)), A0 |-> Num(FileA0), A_A0 |-> Num(Frac(1, 2))] },
        2) }

FitTables ==
    { Indexed(Required, cells) : cells \in SeqsOf(FitRows, MaxRegion) } \cup NonFiniteTables

InitFit ==
    /\ pc = "pre_parse"
    /\ df \in FitTables
    /\ processed_df = None
    /\ selected_data = None
    /\ input_method = None
    /\ uploaded = None
    /\ edited = None
    /\ msgs = {}
    /\ NoScan
    /\ NoFit
    /\ NoRuns

NextFit == PreStep \/ CallFindStable \/ ScanStep \/ SelectRegion \/ FitStep

SpecFit == InitFit /\ [][NextFit]_vars

Init ==
    /\ pc = "start"
    /\ NoApp
    /\ NoScan
    /\ NoFit
    /\ NoRuns

Next ==
    \/ RunUpload
    \/ RunManual
    \/ ProcessData
    \/ NoData
    \/ PreStep
    \/ ReportEmpty
    \/ CallFindStable
    \/ ScanStep
    \/ SelectRegion
    \/ FitStep

Spec == Init /\ [][Next]_vars

(***************************************************************************)
(* Two runs of the script in one session.  Streamlit runs app.main again   *)
(* from the top at every interaction: the variables of the run start       *)
(* afresh, st.session_state is kept.  The session starts with whatever     *)
(* first A values earlier runs left in it; after the first run has ended   *)
(* the script runs once more on the same file, edit, table and button.     *)
(***************************************************************************)
LeftBehind == {None, F(1), F(2)}

RepeatFiles ==
    { Indexed(Essential, cells) : cells \in Seqs0(NumberRows(Essential), MaxEntry) }
    \cup { Indexed(Essential, cells) : cells \in Seqs0(TextRows(Essential), 1) }
    \cup {None}

RepeatTables == { Indexed({"t", "A"}, cells) : cells \in Seqs0(ManualRows, MaxRows) }

\* the run that has ended, as the next run finds it: nothing but st.session_state
\* is carried over
Rerun ==
    /\ pc \in {"end", "done"}
    /\ earlier = None
    /\ earlier' = [pc |-> pc, input_method |-> input_method, uploaded |-> uploaded,
                   edited |-> edited, clicked |-> clicked, df |-> df, msgs |-> msgs,
                   processed_df |-> processed_df, stable_indices |-> stable_indices,
                   selected_data |-> selected_data, pfo |-> pfo, pso |-> pso,
                   results_summary |-> results_summary,
                   detailed_results |-> detailed_results, notified |-> notified]
    /\ pc' = "start"
    /\ input_method' = None
    /\ uploaded' = None
    /\ edited' = None
    /\ df' = None
    /\ msgs' = {}
    /\ processed_df' = None
    /\ selected_data' = None
    /\ y' = <<>>
    /\ t' = <<>>
    /\ threshold' = None
    /\ i' = 0
    /\ stable_indices' = <<>>
    /\ initial_slope' = None
    /\ previous_slope' = F(0)
    /\ pfo' = None
    /\ pso' = None
    /\ results_summary' = None
    /\ metric_cards' = None
    /\ detailed_results' = None
    /\ notified' = FALSE
    /\ clicked' = FALSE
    /\ session_state' = session_state

\* lines 603-829, run again on the file and the edit of the run before
RunUploadAgain ==
    /\ pc = "start"
    /\ earlier # None
    /\ earlier.input_method = "upload"
    /\ \E e \in Edits :
         /\ UploadRun(earlier.uploaded, e)
         /\ edited' = earlier.edited

\* lines 831-953, run again on the table and the button of the run before
RunManualAgain ==
    /\ pc = "start"
    /\ earlier # None
    /\ earlier.input_method = "manual"
    /\ ManualEntry(earlier.edited, earlier.clicked)

InitRuns ==
    /\ pc = "start"
    /\ NoApp
    /\ NoScan
    /\ NoFit
    /\ session_state \in { [uploaded_first_a_value |-> v, first_a_value |-> v] :
                              v \in LeftBehind }
    /\ notified = FALSE
    /\ clicked = FALSE
    /\ earlier = None

NextRuns ==
    \/ RunUploadOf(RepeatFiles)
    \/ RunManualOf(RepeatTables)
    \/ Rerun
    \/ RunUploadAgain
    \/ RunManualAgain
    \/ ProcessData
    \/ NoData
    \/ PreStep
    \/ ReportEmpty
    \/ CallFindStable
    \/ ScanStep
    \/ SelectRegion
    \/ FitStep

SpecRuns == InitRuns /\ [][NextRuns]_vars

(***************************************************************************)
(* C4: every row of the table preprocess_data returns has A > 0, A0 > 0    *)
(* and ratio > 0, for every raw table that has the required columns.       *)
(***************************************************************************)
C4_PositiveRows ==
    pc = "pre_ret" =>
        \A row \in RowsOf(processed_df) :
            /\ FGt(row["A"], F(0))
            /\ FGt(row["A0"], F(0))
            /\ FGt(row["A_A0"], F(0))

\* rows with a zero or negative A, A0 or ratio went in, and some row came out
C4_Witness ==
    /\ pc = "pre_ret"
    /\ Len(df.rows) = 2
    /\ Len(processed_df.rows) = 1
    /\ \E row \in RowsOf(WithRatio(Parsed(df))) :
           \E c \in {"A", "A0", "A_A0"} : FLe(row[c], F(0))

CommaParse(c) == IF IsStr(c) THEN ParseFloat(ReplaceComma(c.str)) ELSE NaN

C8_RatioOf(raw, row) ==
    IF "A_A0" \notin df.cols THEN FDiv(row["A"], row["A0"])
    ELSE IF to_numeric(raw["A_A0"]) # NaN THEN to_numeric(raw["A_A0"])
    ELSE IF CommaParse(raw["A_A0"]) # NaN THEN CommaParse(raw["A_A0"])
    ELSE FDiv(row["A"], row["A0"])

C8_RatioFilled ==
    /\ pc = "pre_dropna" =>
          \A k \in 1..Len(df.rows) :
              processed_df.rows[k]["A_A0"] = C8_RatioOf(df.rows[k], processed_df.rows[k])
    /\ pc = "pre_ret" =>
          \A raw \in RowsOf(df) :
              ( /\ "A_A0" \in df.cols
                /\ to_numeric(raw["A_A0"]) = NaN
                /\ CommaParse(raw["A_A0"]) = NaN
                /\ \A c \in Required : IsFinite(ParseCell(raw[c]))
                /\ FGt(ParseCell(raw["A"]), F(0))
                /\ FGt(ParseCell(raw["A0"]), F(0)) )
              => /\ raw["idx"] \in Indices(processed_df)
                 /\ RowAt(processed_df, raw["idx"])["A_A0"] =
                        FDiv(ParseCell(raw["A"]), ParseCell(raw["A0"]))

\* a row whose ratio text is unparseable is returned with ratio A / A0
C8_Witness ==
    /\ pc = "pre_ret"
    /\ \E raw \in RowsOf(df) :
           /\ "A_A0" \in df.cols
           /\ raw["A_A0"] = TextX
           /\ raw["idx"] \in Indices(processed_df)
           /\ RowAt(processed_df, raw["idx"])["A_A0"] = F(1)

(***************************************************************************)
(* C9: after the parse block of preprocess_data, each cell of time, A and  *)
(* A0 holds the strictly parsed value whenever the strict parse succeeds;  *)
(* otherwise the value parsed with every comma replaced by a point, when   *)
(* that succeeds; otherwise NaN.  The block always completes.              *)
(***************************************************************************)
C9_ChainOf(c) ==
    IF to_numeric(c) # NaN THEN to_numeric(c)
    ELSE IF CommaParse(c) # NaN THEN CommaParse(c)
    ELSE NaN

C9_FallbackChain ==
    pc \in {"pre_ratio", "pre_dropna"} =>
        /\ Len(processed_df.rows) = Len(df.rows)
        /\ \A k \in 1..Len(df.rows) : \A c \in Required :
               processed_df.rows[k][c] = C9_ChainOf(df.rows[k][c])

\* a comma-decimal text, a strictly parsed text and an unparseable text, parsed
C9_Witness ==
    /\ pc = "pre_ratio"
    /\ \E k \in 1..Len(df.rows) :
           /\ df.rows[k]["t"] = Comma15
           /\ processed_df.rows[k]["t"] = Frac(3, 2)
    /\ \E k \in 1..Len(df.rows) :
           /\ df.rows[k]["A"] \in {Text4, TextX}
           /\ processed_df.rows[k]["A"] \in {F(4), NaN}

(***************************************************************************)
(* C2: the list find_stable_points returns is a contiguous index prefix    *)
(* 0, 1, ..., m-1 (m >= 1), for every dataset the preprocessor hands it,   *)
(* datasets with repeated time values included.                            *)
(***************************************************************************)
C2_ContiguousPrefix ==
    pc = "scan_done" =>
        /\ Len(stable_indices) >= 1
        /\ stable_indices = [k \in 1..Len(stable_indices) |-> k - 1]

(***************************************************************************)
(* C3: every dataset that leaves the preprocessor and reaches the region   *)
(* selector has strictly increasing times, none repeated, whichever input  *)
(* path (file upload or manual entry) produced the raw table.              *)
(***************************************************************************)
C3_TimesStrictlyIncreasing ==
    pc = "scan" => \A k \in 1..(Len(t) - 1) : FLt(t[k], t[k + 1])

(***************************************************************************)
(* C6: from the call of preprocess_data on, a run whose table comes back   *)
(* empty reports the empty dataset and ends: find_stable_points is never   *)
(* called on it and nothing is selected from it; a run in which at least   *)
(* one row survives reports nothing on the way to the region selector,     *)
(* whatever rows were dropped.  Neither fit runs and no result is          *)
(* assembled on an empty table; a run that ends with a non-empty table     *)
(* ended on the error of a fit.                                            *)
(***************************************************************************)
Analysing == pc \in {"scan", "scan_done", "scan_raised", "fit"}

C6_SurvivorsReached ==
    /\ pc = "scan"
    /\ \E row \in RowsOf(df) : row["A"] = TextX
    /\ Len(processed_df.rows) < Len(df.rows)
    /\ "empty_after_processing" \notin msgs

(***************************************************************************)
(* C7: when the input table has no A0 column, the analysis proceeds with   *)
(* A0 set in every row to the first positive A of the table (not           *)
(* necessarily that of the first row), on the upload path and on the       *)
(* manual path.                                                            *)
(***************************************************************************)
PositiveAs(tb) ==
    SelectSeq(tb.rows, LAMBDA row : ~IsStr(row["A"]) /\ FGt(row["A"].num, F(0)))

C7_Entered == IF input_method = "upload" THEN uploaded ELSE edited

C7_FirstPositiveA ==
    ( /\ pc \in {"process", "end"}
      /\ C7_Entered # None
      /\ {"t", "A"} \subseteq C7_Entered.cols
      /\ "A0" \notin C7_Entered.cols
      /\ PositiveAs(C7_Entered) # <<>> )
    => /\ msgs \cap {"missing_columns", "a0_undetermined", "first_a_not_positive"} = {}
       /\ (pc = "process" /\ df # None) =>
              \A row \in RowsOf(df) : row["A0"] = PositiveAs(C7_Entered)[1]["A"]

Range(s) == {s[k] : k \in 1..Len(s)}

StrictlyIncreasing(s) == \A k \in 1..(Len(s) - 1) : s[k] < s[k + 1]

(***************************************************************************)
(* C1: for every series of at least one point and every threshold,         *)
(* find_stable_points does not raise and returns a non-empty, strictly     *)
(* increasing list whose first element is 0; a one-point series gives [0]. *)
(***************************************************************************)
C1_ResultWellFormed ==
    /\ pc # "scan_raised"
    /\ pc = "scan_done" =>
          /\ Len(stable_indices) >= 1
          /\ stable_indices[1] = 0
          /\ StrictlyIncreasing(stable_indices)
          /\ Range(stable_indices) \subseteq 0..(Len(y) - 1)
          /\ (Len(y) = 1 => stable_indices = <<0>>)

C1_Witness ==
    /\ pc = "scan_done"
    /\ Len(y) = 3
    /\ Len(stable_indices) >= 2
    /\ threshold = Frac(1, 10)

(***************************************************************************)
(* C10: a candidate whose time equals the time of the most recently        *)
(* accepted index is skipped: it is not appended, the scan goes on to the  *)
(* next index, nothing is divided by zero, and the reference slope and     *)
(* the previous slope keep their values; for t = [0, 0, 5] the call        *)
(* returns a non-empty list without index 1.                               *)
(***************************************************************************)
DuplicateLeading == <<F(0), F(0), F(5)>>

C10_DuplicateTimeSkipped ==
    /\ [](pc # "scan_raised")
    /\ []((pc = "scan_done" /\ t = DuplicateLeading) =>
            (Len(stable_indices) >= 1 /\ 1 \notin Range(stable_indices)))
    /\ [][(InLoop /\ FEq(t[i + 1], t[Last(stable_indices) + 1])) =>
            /\ stable_indices' = stable_indices
            /\ initial_slope' = initial_slope
            /\ previous_slope' = previous_slope
            /\ pc' = "scan"
            /\ i' = i + 1]_vars

C10_Witness ==
    /\ pc = "scan_done"
    /\ t = DuplicateLeading
    /\ stable_indices = <<0, 2>>

(***************************************************************************)
(* C11: with the default threshold 0.1 and pairwise distinct times, a      *)
(* series whose successive slopes all equal the reference slope is         *)
(* selected whole: every candidate whose slope equals the reference slope  *)
(* (as did the slope before it) is appended, and find_stable_points        *)
(* returns 0..n-1; for t = [0, 2, 5, 10] and y = -0.05 * t it returns      *)
(* [0, 1, 2, 3].                                                           *)
(***************************************************************************)
DistinctTimes == \A j, k \in 1..Len(t) : j # k => ~FEq(t[j], t[k])

SlopeBetween(j, k) == FDiv(FSub(y[k], y[j]), FSub(t[k], t[j]))

EqualSlopes == \A k \in 2..(Len(y) - 1) : FEq(SlopeBetween(k, k + 1), SlopeBetween(1, 2))

NoiselessY == <<F(0), Frac(-1, 10), Frac(-1, 4), Frac(-1, 2)>>

C11_ConstantSlopeSelectsAll ==
    /\ []((pc = "scan_done" /\ threshold = Frac(1, 10) /\ DistinctTimes /\ EqualSlopes)
            => stable_indices = [k \in 1..Len(y) |-> k - 1])
    /\ [][(InLoop /\ threshold = Frac(1, 10) /\ ~ZeroDelta /\ initial_slope # None
           /\ FEq(current_slope, initial_slope) /\ FEq(previous_slope, initial_slope))
            => stable_indices' = Append(stable_indices, i)]_vars

C11_Witness ==
    /\ pc = "scan_done"
    /\ t = ScenarioT
    /\ y = NoiselessY
    /\ stable_indices = <<0, 1, 2, 3>>

(***************************************************************************)
(* C12: the scan stops for good at the first terminating condition: when   *)
(* the condition is met at candidate i the call returns the list as it     *)
(* stands, which holds only indices below i, whatever the later points.    *)
(***************************************************************************)
C12_StopsPermanently ==
    /\ [](pc = "scan" => \A k \in Range(stable_indices) : k < i)
    /\ [][(InLoop /\ ~ZeroDelta /\ initial_slope # None /\ SlopeChanged(current_slope))
            => (pc' = "scan_done" /\ stable_indices' = stable_indices)]_vars
    /\ [][pc = "scan_done" => stable_indices' = stable_indices]_vars

\* the slope of candidate k (0-based) against the last accepted index passes
\* the tests of lines 45-52
C12_WouldAccept(k) ==
    /\ ~FEq(t[k + 1], t[Last(stable_indices) + 1])
    /\ ~SlopeChanged(FDiv(FSub(y[k + 1], y[Last(stable_indices) + 1]),
                          FSub(t[k + 1], t[Last(stable_indices) + 1])))

\* the scan ended at candidate i and the candidate after it would be accepted
C12_Witness ==
    /\ pc = "scan_done"
    /\ i + 1 < Len(y)
    /\ C12_WouldAccept(i + 1)
    /\ \A k \in Range(stable_indices) : k < i

(***************************************************************************)
(* C13: the two fits are attempted independently: once a run has reached   *)
(* the fits and ended, the result of every fit that succeeds on the        *)
(* selected region is there and is reported, whether or not the other fit  *)
(* failed.                                                                 *)
(***************************************************************************)
C13_FitsIndependent ==
    (pc \in {"end", "done"} /\ selected_data # None) =>
        /\ ~IsError(fit_pfo_model(selected_data)) =>
               (pfo # None /\ results_summary # None)
        /\ ~IsError(fit_pso_model(selected_data)) =>
               (pso # None /\ results_summary # None)

(***************************************************************************)
(* C14: a selected region of fewer than two points, or whose times are all *)
(* equal, gets no rate constant: neither fit returns and nothing is        *)
(* reported for it.                                                        *)
(***************************************************************************)
DegenerateRegion ==
    /\ selected_data # None
    /\ \/ Len(selected_data.rows) < 2
       \/ \A j, k \in 1..Len(selected_data.rows) :
              FEq(selected_data.rows[j]["t"], selected_data.rows[k]["t"])

C14_DegenerateRegionFails ==
    DegenerateRegion => (pfo = None /\ pso = None /\ results_summary = None)

(***************************************************************************)
(* C15 as stated: every run that produces no results ends in exactly one   *)
(* of three outcomes, "no data provided" (the prompt to upload or enter    *)
(* data), "no valid rows after cleaning" or "model fit failed", and in     *)
(* nothing else.                                                           *)
(***************************************************************************)
Prompts == {"upload_prompt", "manual_prompt"}

ThreeOutcomes == {Prompts, {"empty_after_processing"}, {"fit_error"}}

C15_ExactlyOneOfThree ==
    pc = "end" =>
        /\ msgs \subseteq UNION ThreeOutcomes
        /\ Cardinality({o \in ThreeOutcomes : msgs \cap o # {}}) = 1

(***************************************************************************)
(* C15 amended: no run that produces no results ends silently, and the     *)
(* three conditions are told apart: a run without data (no file uploaded,  *)
(* no row entered) shows the prompt and neither the error of line 963 nor  *)
(* the fit error; a run whose table comes back empty from preprocess_data  *)
(* shows the error of line 963 and neither the prompt nor the fit error;   *)
(* a run whose fit raised shows the fit error and neither of the others.   *)
(* A run stopped before preprocess_data by a check of its input shows the  *)
(* error of that check, on the manual path together with the prompt        *)
(* unless the check returned.                                              *)
(***************************************************************************)
C15_OutcomesTellApart ==
    pc = "end" =>
        /\ results_summary = None
        /\ msgs # {}
        /\ processed_df = None =>
               /\ msgs \cap {"empty_after_processing", "fit_error"} = {}
               /\ (input_method = "upload" /\ uploaded = None) => msgs = {"upload_prompt"}
               /\ (input_method = "manual" /\ Len(edited.rows) = 0) =>
                      ("manual_prompt" \in msgs /\ msgs \subseteq {"manual_prompt", "manual_empty"})
               /\ input_method = "manual" =>
                      ("manual_prompt" \in msgs \/ msgs = {"first_a_not_positive"})
        /\ (processed_df # None /\ selected_data = None) =>
               /\ "empty_after_processing" \in msgs
               /\ msgs \cap ({"fit_error"} \cup Prompts) = {}
        /\ selected_data # None =>
               /\ "fit_error" \in msgs
               /\ msgs \cap ({"empty_after_processing"} \cup Prompts) = {}

\* a run ended by a failed fit, with the fit error alone
C15_Witness ==
    /\ pc = "end"
    /\ selected_data # None
    /\ msgs = {"fit_error"}

\* a run ended by an empty table after cleaning
C15_EmptyReached ==
    /\ pc = "end"
    /\ processed_df # None
    /\ selected_data = None
    /\ "empty_after_processing" \in msgs

(***************************************************************************)
(* C16: the second-order fit takes its intercept from the A of the first   *)
(* point of the selected region: whatever value the column A0 of the       *)
(* region holds, the fit succeeds alike and returns the same k2 and the    *)
(* same predictions, which are 1 / (1 / A_first + k2 * t).                 *)
(***************************************************************************)
OtherA0s == {F(1), F(3), PInf}

C16_WithA0(a0) == SetCol(selected_data, "A0", LAMBDA row : a0)

C16_InterceptFromRegion ==
    pc \in {"report", "done"} =>
        /\ \A a0 \in OtherA0s :
               LET r == fit_pso_model(C16_WithA0(a0))
               IN  /\ ~IsError(r)
                   /\ r.k = pso.k
                   /\ Column(r.predictions, "PSO_pred") = Column(pso.predictions, "PSO_pred")
                   /\ r.mape = pso.mape
                   /\ r.r2 = pso.r2
        /\ \A row \in RowsOf(pso.predictions) :
               row["PSO_pred"] =
                   FDiv(F(1), FAdd(FDiv(F(1), selected_data.rows[1]["A"]),
                                   FMul(pso.k, row["t"])))

\* a fitted region of several points whose first A is not the reference A0
C16_Witness ==
    /\ pc = "done"
    /\ Len(selected_data.rows) >= 2
    /\ selected_data.rows[1]["A"] # selected_data.rows[1]["A0"]
    /\ ~FEq(pso.k, F(0))

(***************************************************************************)
(* C17: the detail table has one row per index of the selected region, in  *)
(* the order of the region, and row k holds the time, the observed ratio,  *)
(* the first-order prediction, the observed A and the second-order         *)
(* prediction of the dataset point stable_indices[k].                      *)
(***************************************************************************)
C17_DetailRowsMatchRegion ==
    detailed_results # None =>
        /\ Len(detailed_results) = Len(stable_indices)
        /\ \A k \in 1..Len(stable_indices) :
               LET point == processed_df.rows[stable_indices[k] + 1]
                   d == detailed_results[k]
               IN  /\ d.idx = point["idx"]
                   /\ d.time = point["t"]
                   /\ d.ratio = point["A_A0"]
                   /\ d.a = point["A"]
                   /\ d.pfo_pred = Exp(pfo_model(point["t"], pfo.k))
                   /\ d.pso_pred =
                          FDiv(F(1), pso_model(point["t"], pso.k, selected_data.rows[1]["A"]))

\* a region that leaves out a point of the dataset, its rows unlike each other
C17_Witness ==
    /\ detailed_results # None
    /\ stable_indices = <<0, 2>>
    /\ detailed_results[1].a # detailed_results[2].a
    /\ detailed_results[1].pso_pred # detailed_results[2].pso_pred

(***************************************************************************)
(* C18: when every prediction of a fit equals the observed value, the fit  *)
(* returns MAPE 0 and R2 1, for a region of one point and for a region     *)
(* whose observed values are all equal as well.                            *)
(***************************************************************************)
ExactPfo == Column(pfo.predictions, "PFO_pred") = Column(selected_data, "A_A0")

ExactPso == Column(pso.predictions, "PSO_pred") = Column(selected_data, "A")

C18_ExactMatchMetrics ==
    /\ (pfo # None /\ ExactPfo) => (pfo.mape = F(0) /\ pfo.r2 = F(1))
    /\ (pso # None /\ ExactPso) => (pso.mape = F(0) /\ pso.r2 = F(1))

(***************************************************************************)
(* C19: the first-order rate constant of the summary table and of the      *)
(* metric card is the magnitude of the fitted k1, to five decimals, never  *)
(* negative; the predictions are -k1 * t and its exponential with the      *)
(* fitted k1, sign included.                                               *)
(***************************************************************************)
C19_MagnitudeReported ==
    results_summary # None =>
        /\ results_summary[1].model = "PFO"
        /\ results_summary[1].params = Fixed(FAbs(pfo.k), 5)
        /\ FGe(results_summary[1].params, F(0))
        /\ metric_cards.k1 = Fixed(FAbs(pfo.k), 5)
        /\ FGe(metric_cards.k1, F(0))
        /\ \A row \in RowsOf(pfo.predictions) :
               /\ row["PFO_pred_ln"] = FMul(FNeg(pfo.k), row["t"])
               /\ row["PFO_pred"] = Exp(row["PFO_pred_ln"])

\* a negative fitted k1, reported as a positive figure, its predictions growing
C19_Witness ==
    /\ results_summary # None
    /\ FLt(pfo.k, F(0))
    /\ FGt(results_summary[1].params, F(0))
    /\ \E row \in RowsOf(pfo.predictions) : FGt(row["PFO_pred_ln"], F(0))

(***************************************************************************)
(* C20: preprocess_data leaves its argument alone: no step of the function *)
(* changes the raw table, whose rows, columns and values at the return are *)
(* those of the call.                                                      *)
(***************************************************************************)
InPreprocess ==
    pc \in {"pre_parse", "pre_ratio", "pre_dropna", "pre_filter", "pre_derive"}

C20_InputUntouched == [][InPreprocess => df' = df]_vars

\* rows were dropped and columns derived, and the raw table still holds its text
C20_Witness ==
    /\ pc = "pre_ret"
    /\ Len(processed_df.rows) < Len(df.rows)
    /\ "ln_A_A0" \in processed_df.cols
    /\ "ln_A_A0" \notin df.cols
    /\ \E row \in RowsOf(df) : row["t"] = Comma15
    /\ \E row \in RowsOf(processed_df) : row["t"] = Frac(3, 2)

(***************************************************************************)
(* C22 as stated: once the reference slope is set and non-zero, a          *)
(* candidate with a non-zero time delta is accepted if and only if         *)
(* |slope / reference| >= threshold and slope * previous_slope >= 0, and   *)
(* otherwise the scan ends before accepting it.                            *)
(***************************************************************************)
Candidate == InLoop /\ ~ZeroDelta /\ initial_slope # None

SlopeRatio == FAbs(FDiv(current_slope, initial_slope))

SlopeProduct == FMul(current_slope, previous_slope)

Accepted == stable_indices' = Append(stable_indices, i) /\ pc' = "scan"

Terminated == stable_indices' = stable_indices /\ pc' = "scan_done"

C22_NaNAccepted ==
    /\ pc = "scan"
    /\ threshold = Frac(1, 10)
    /\ Len(stable_indices) >= 3
    /\ ~FEq(initial_slope, F(0))
    /\ IsNaN(FDiv(previous_slope, initial_slope))

(***************************************************************************)
(* C23: when the reference slope is exactly zero, for every threshold that *)
(* is a number, a later candidate with a non-zero time delta is accepted   *)
(* if and only if |slope| <= threshold, and otherwise the scan ends; the   *)
(* sign of the slope against the previous slope plays no part, so a slope  *)
(* within the threshold is accepted after a slope of the opposite sign.    *)
(***************************************************************************)
C23_ZeroReferenceBand ==
    [][(Candidate /\ FEq(initial_slope, F(0)) /\ ~IsNaN(threshold)) =>
         /\ Accepted <=> FLe(FAbs(current_slope), threshold)
         /\ Accepted \/ Terminated
         /\ Accepted => previous_slope' = current_slope]_vars

\* under a zero reference, a rising slope and then a falling slope were accepted
C23_Witness ==
    /\ pc = "scan_done"
    /\ FEq(initial_slope, F(0))
    /\ stable_indices = <<0, 1, 2, 3>>
    /\ FGt(SlopeBetween(2, 3), F(0))
    /\ FLt(SlopeBetween(3, 4), F(0))
    /\ previous_slope = SlopeBetween(3, 4)

(***************************************************************************)
(* C24: throughout the scan each slope is taken between the candidate and  *)
(* the most recently accepted index; the reference slope is unset until    *)
(* the first slope is computed, is that slope from then on and never       *)
(* changes; previous_slope is 0 before any acceptance and afterwards the   *)
(* slope between the last two accepted indices.                            *)
(***************************************************************************)
InScan == pc \in {"scan", "scan_done"}

\* the slope between the accepted indices of positions n - 1 and n of the list
AcceptedSlope(n) == SlopeBetween(stable_indices[n - 1] + 1, stable_indices[n] + 1)

C24_SlopeBookkeeping ==
    /\ []((InScan /\ Len(stable_indices) = 1) =>
            (initial_slope = None /\ previous_slope = F(0)))
    /\ []((InScan /\ Len(stable_indices) >= 2) =>
            /\ initial_slope = AcceptedSlope(2)
            /\ previous_slope = AcceptedSlope(Len(stable_indices)))
    /\ [][(InLoop /\ ~ZeroDelta /\ initial_slope = None) =>
            initial_slope' = SlopeBetween(Last(stable_indices) + 1, i + 1)]_vars
    /\ [][(InScan /\ initial_slope # None) => initial_slope' = initial_slope]_vars
    /\ [][(InLoop /\ stable_indices' # stable_indices) =>
            /\ stable_indices' = Append(stable_indices, i)
            /\ previous_slope' = SlopeBetween(Last(stable_indices) + 1, i + 1)]_vars
    /\ [][(InScan /\ stable_indices' = stable_indices) =>
            previous_slope' = previous_slope]_vars

\* index 1 was skipped and index 2 accepted with its slope against index 0,
\* which is not its slope against index 1
C24_Witness ==
    /\ pc = "scan_done"
    /\ Len(y) = 3
    /\ stable_indices = <<0, 2>>
    /\ previous_slope = SlopeBetween(1, 3)
    /\ previous_slope # FDiv(FSub(y[3], y[2]), FSub(t[3], t[1]))
    /\ initial_slope = previous_slope

\* three accepted points whose previous slope is no longer the reference
C24_ReferenceKept ==
    /\ pc = "scan_done"
    /\ Len(stable_indices) >= 3
    /\ initial_slope = AcceptedSlope(2)
    /\ previous_slope # initial_slope

(***************************************************************************)
(* C25: the first candidate whose time differs from t[0] is accepted       *)
(* whatever the threshold and whatever its slope, a slope of 0 included;   *)
(* so whenever some index i >= 1 has t[i] # t[0], the returned list has at *)
(* least two indices, the second being the first such i, with a time       *)
(* different from that of index 0.                                         *)
(***************************************************************************)
DiffersFromFirst == {k \in 1..(Len(t) - 1) : t[k + 1] # t[1]}

C25_FirstSegmentAccepted ==
    /\ [][(InLoop /\ initial_slope = None /\ t[i + 1] # t[1]) =>
            (Accepted /\ initial_slope' = SlopeBetween(1, i + 1))]_vars
    /\ []((pc = "scan_done" /\ DiffersFromFirst # {}) =>
            /\ Len(stable_indices) >= 2
            /\ stable_indices[2] \in DiffersFromFirst
            /\ \A k \in DiffersFromFirst : stable_indices[2] <= k
            /\ t[stable_indices[2] + 1] # t[stable_indices[1] + 1])

\* a flat first segment accepted under a threshold no slope of 0 would pass
\* as a ratio, after a candidate with the time of index 0 was passed over
C25_Witness ==
    /\ pc = "scan_done"
    /\ threshold = F(1)
    /\ t = DuplicateLeading
    /\ y[3] = y[1]
    /\ stable_indices = <<0, 2>>
    /\ initial_slope = F(0)

(***************************************************************************)
(* C28: when the times handed to find_stable_points are strictly           *)
(* increasing, no candidate is passed over and the returned list is        *)
(* 0, 1, ..., m-1 for some m >= 1; in any series, an index missing between *)
(* two listed indices has the time of the listed index before it.          *)
(***************************************************************************)
TimesStrictlyIncreasing == \A k \in 1..(Len(t) - 1) : FLt(t[k], t[k + 1])

C28_GapsOnlyAtRepeatedTimes ==
    /\ []((InScan /\ TimesStrictlyIncreasing) =>
            /\ Len(stable_indices) >= 1
            /\ stable_indices = [k \in 1..Len(stable_indices) |-> k - 1]
            /\ (pc = "scan" => i = Len(stable_indices)))
    /\ [](InScan =>
            \A n \in 2..Len(stable_indices) :
                \A g \in (stable_indices[n - 1] + 1)..(stable_indices[n] - 1) :
                    FEq(t[g + 1], t[stable_indices[n - 1] + 1]))
    /\ [][(InLoop /\ TimesStrictlyIncreasing) =>
            (stable_indices' = Append(stable_indices, i) \/ pc' = "scan_done")]_vars

\* strictly increasing times, the scan ended before the last point
C28_Witness ==
    /\ pc = "scan_done"
    /\ t = ScenarioT
    /\ TimesStrictlyIncreasing
    /\ stable_indices = <<0, 1, 2>>

\* a list with a gap, at an index that repeats the time of the one before it
C28_GapReached ==
    /\ pc = "scan_done"
    /\ t = <<F(2), F(2), F(5)>>
    /\ stable_indices = <<0, 2>>
    /\ i = 3

(***************************************************************************)
(* C29: find_stable_points is a function of its arguments, and for a       *)
(* series whose first computed slope is not zero the list returned under a *)
(* threshold T2 >= T1 is an initial segment of the list returned under T1: *)
(* raising the threshold never adds a point.  For a series whose first     *)
(* computed slope is zero it is the other way round: the list returned     *)
(* under T1 is an initial segment of the list returned under T2.           *)
(***************************************************************************)
IsPrefix(a, b) == Len(a) <= Len(b) /\ a = SubSeq(b, 1, Len(a))

OtherThresholds == {F(0), Frac(1, 10), Frac(1, 2), F(1), F(3)}

C29_ThresholdMonotone ==
    pc = "scan_done" =>
        /\ stable_indices = find_stable_points(y, t, threshold)
        /\ \A T2 \in OtherThresholds :
               FLe(threshold, T2) =>
                   IF FEq(initial_slope, F(0))
                   THEN IsPrefix(stable_indices, find_stable_points(y, t, T2))
                   ELSE IsPrefix(find_stable_points(y, t, T2), stable_indices)

\* a non-zero first slope: three points under 0.1, two under 1
C29_Witness ==
    /\ pc = "scan_done"
    /\ threshold = Frac(1, 10)
    /\ initial_slope # None
    /\ ~FEq(initial_slope, F(0))
    /\ Len(stable_indices) >= 3
    /\ Len(find_stable_points(y, t, F(1))) = 2

\* a zero first slope: two points under 0.1, more under 1
C29_ZeroLengthens ==
    /\ pc = "scan_done"
    /\ threshold = Frac(1, 10)
    /\ FEq(initial_slope, F(0))
    /\ Len(stable_indices) = 2
    /\ Len(find_stable_points(y, t, F(1))) > 2

(***************************************************************************)
(* C30: preprocess_data only removes rows: at every step the table has the *)
(* rows of the raw table or fewer, never a new one; the rows returned are  *)
(* rows of the raw table in their original order, each once, and each      *)
(* holds in time, A and A0 the parsed value of its raw cell.               *)
(***************************************************************************)
IndexColumn(tb) == [k \in 1..Len(tb.rows) |-> tb.rows[k]["idx"]]

C30_OnlyRemovesRows ==
    (pc \in {"pre_ratio", "pre_dropna", "pre_filter", "pre_derive", "pre_ret"}) =>
        /\ Len(processed_df.rows) <= Len(df.rows)
        /\ StrictlyIncreasing(IndexColumn(processed_df))
        /\ Indices(processed_df) \subseteq Indices(df)
        /\ \A row \in RowsOf(processed_df) :
               \A c \in Required : row[c] = ParseCell(RowAt(df, row["idx"])[c])

\* two rows returned in the order they came in, one of them parsed from text
C30_Witness ==
    /\ pc = "pre_ret"
    /\ IndexColumn(processed_df) = <<0, 1>>
    /\ df.rows[2]["t"] = Comma15
    /\ processed_df.rows[2]["t"] = Frac(3, 2)
    /\ FLt(processed_df.rows[2]["t"], processed_df.rows[1]["t"])

\* the first row removed, the second returned
C30_LaterRowKept ==
    /\ pc = "pre_ret"
    /\ Len(df.rows) = 2
    /\ IndexColumn(processed_df) = <<1>>

(***************************************************************************)
(* C26: on the upload path, whenever the first row of the edited table has *)
(* A > 0, the table handed to preprocess_data has in every row A0 equal to *)
(* that A and the ratio A / A0 computed from it (to four decimals),        *)
(* whatever A0 and ratio the file supplied; the A0 of the file is used     *)
(* only when the A of the first row is not positive.                       *)
(***************************************************************************)
C26_FirstA == ParseCell(edited.rows[1]["A"])

EditedUpload ==
    /\ pc = "process"
    /\ input_method = "upload"
    /\ edited # None
    /\ df # None
    /\ Len(edited.rows) > 0

C26_FirstAIsReference ==
    EditedUpload =>
        IF FGt(C26_FirstA, F(0))
        THEN \A row \in RowsOf(df) :
                 /\ ParseCell(row["A0"]) = C26_FirstA
                 /\ "A_A0" \in df.cols
                 /\ ParseCell(row["A_A0"]) = Round4(FDiv(ParseCell(row["A"]), C26_FirstA))
        ELSE \A row \in RowsOf(df) : row["A0"] = RowAt(uploaded, row["idx"])["A0"]

\* the same for the tables whose A and time cells are all numbers
C26_NumericTables ==
    (EditedUpload /\ ~HasText(edited, {"A", "t"})) =>
        /\ C26_FirstAIsReference
        /\ "read_error" \notin msgs

\* a numeric table whose first A is not the A0 of the file, handed on with
\* the first A as A0
C26_NumericReached ==
    /\ EditedUpload
    /\ ~HasText(edited, {"A", "t"})
    /\ FGt(C26_FirstA, F(0))
    /\ "A0" \in uploaded.cols
    /\ uploaded.rows[1]["A0"] # edited.rows[1]["A"]
    /\ Len(df.rows) >= 2

(***************************************************************************)
(* C27: on the manual-entry path the analysis starts only if the valid     *)
(* rows (first A as A0, A > 0, time >= 0) have no repeated time and times  *)
(* in increasing order: the table handed on is then the valid rows, and    *)
(* every series that reaches find_stable_points from manual entry has      *)
(* strictly increasing times; otherwise the error of the failed check is   *)
(* shown (once the button is pressed), no table is handed on and nothing   *)
(* is analysed.                                                            *)
(***************************************************************************)
ManualRun == input_method = "manual" /\ pc # "start"

\* the times of the rows of the entered table that pass the mask of line 928
ManualValidTimes ==
    IF Len(edited.rows) = 0 \/ ~FGt(edited.rows[1]["A"].num, F(0)) THEN <<>>
    ELSE LET kept == SelectSeq(edited.rows,
                               LAMBDA row : FGt(row["A"].num, F(0)) /\ FGe(row["t"].num, F(0)))
         IN  [k \in 1..Len(kept) |-> kept[k]["t"].num]

Increasing(s) == \A k \in 1..(Len(s) - 1) : FLt(s[k], s[k + 1])

OrderErrors == {"duplicate_time", "not_increasing"}

C27_ManualTimesIncreasing ==
    ManualRun =>
        /\ df # None =>
               /\ Increasing(ManualValidTimes)
               /\ [k \in 1..Len(df.rows) |-> df.rows[k]["t"].num] = ManualValidTimes
               /\ msgs \cap OrderErrors = {}
        /\ (ManualValidTimes # <<>> /\ ~Increasing(ManualValidTimes)) =>
               /\ df = None
               /\ processed_df = None
               /\ pc \in {"process", "end"}
               /\ msgs \in {{}, {"duplicate_time"}, {"not_increasing"},
                             {"manual_prompt"}, {"duplicate_time", "manual_prompt"},
                             {"not_increasing", "manual_prompt"}}
               /\ pc = "end" => "manual_prompt" \in msgs
        /\ pc \in {"scan", "scan_done", "fit", "fit_pso", "report", "done"} =>
               (Increasing(t) /\ Increasing(Column(processed_df, "t")))
        /\ processed_df # None => df # None

\* three rows entered, one of them not valid, the other two in increasing
\* order of time: the scan runs on the two
C27_Witness ==
    /\ ManualRun
    /\ pc = "scan"
    /\ Len(edited.rows) = 3
    /\ Len(t) = 2
    /\ FLt(t[1], t[2])

\* valid rows in decreasing order of time: the error shown, nothing analysed
C27_Rejected ==
    /\ ManualRun
    /\ pc = "end"
    /\ ManualValidTimes = <<F(2), F(0)>>
    /\ msgs = {"not_increasing", "manual_prompt"}
    /\ processed_df = None

(***************************************************************************)
(* C21: the analysis keeps nothing from one run to the next: a run on the  *)
(* same file, edit, table and button as the run before it ends in the same *)
(* place with the same table handed to preprocess_data, the same cleaned   *)
(* table (reference concentration included), the same selected region and  *)
(* the same fits and messages, whatever first A values the session         *)
(* remembered at the start of either run; the remembered values change     *)
(* only together with the notification of lines 798 and 891.               *)
(***************************************************************************)
C21_RunsAgree ==
    /\ []((earlier # None /\ pc \in {"end", "done"}) =>
            /\ input_method = earlier.input_method
            /\ uploaded = earlier.uploaded
            /\ edited = earlier.edited
            /\ clicked = earlier.clicked
            /\ pc = earlier.pc
            /\ df = earlier.df
            /\ processed_df = earlier.processed_df
            /\ stable_indices = earlier.stable_indices
            /\ selected_data = earlier.selected_data
            /\ msgs = earlier.msgs
            /\ pfo = earlier.pfo
            /\ pso = earlier.pso
            /\ results_summary = earlier.results_summary
            /\ detailed_results = earlier.detailed_results)
    /\ [][session_state' # session_state => notified']_vars
    /\ [][(pc = "start" /\ pc' # "start" /\ FirstA(edited') = None) =>
            session_state' = session_state]_vars

\* two runs on the same input ended with the same region of several points;
\* the first run found another first A remembered and announced the new one,
\* the second found the value the first had left and announced nothing
C21_Witness ==
    /\ earlier # None
    /\ pc = "done"
    /\ earlier.notified
    /\ ~notified
    /\ Len(stable_indices) >= 2
    /\ stable_indices = earlier.stable_indices
    /\ processed_df = earlier.processed_df
    /\ FirstA(edited) = F(2)

====
